---------------------------- MODULE Spec2Model ----------------------------
(***************************************************************************)
(* A model of the delivery-detection and transaction-submission pipeline   *)
(* of mech-client-ts:                                                      *)
(*   - the delivery monitor: waitForMarketplaceDataUrl                     *)
(*     (marketplace_interact.ts) running watchForMarketplaceData and then  *)
(*     one watchForMechDataUrl per assigned worker (delivery.ts);          *)
(*   - the request submitters: sendMarketplaceRequest                      *)
(*     (marketplace_interact.ts) and sendRequest (interact.ts);            *)
(*   - the Safe delivery: deliverViaSafe (post_deliver.ts).                *)
(*                                                                         *)
(* Time is counted in seconds (the code multiplies by 1000 on both sides   *)
(* of every comparison).  Every chain call of a run takes callDur seconds  *)
(* (the latency of the endpoint, 0..MaxCallDur), a sleep takes exactly the *)
(* time it was asked for.                                                  *)
(*                                                                         *)
(* Strings the code converts are records of what the conversions read:     *)
(*   request id    [pfx, up, v]   "0x" prefix?, upper-case letters?, value *)
(*   address       [pfx, acct]    prefix "0x" / "0X" / "", account number  *)
(* A JS object (Record<string, T>) is the sequence of its [k, v] entries   *)
(* in insertion order.                                                     *)
(***************************************************************************)
EXTENDS Integers, Sequences, FiniteSets, TLC

\* ------------------------------------------------------------------ bounds
MaxId == 2          \* distinct request id values
MaxBatch == 2       \* request ids in one batch
MaxMech == 2        \* worker accounts
MaxTimeout == 4     \* largest timeout (seconds) passed by the caller
MaxCallDur == 1     \* longest latency of a chain call (seconds)
MaxBlock == 3       \* highest block mined during a run
MaxLogs == 2        \* Deliver logs on chain during a run
MaxRate == 2        \* highest maxDeliveryRate of a mech
MaxRequests == 2    \* most prompts of one marketplaceInteract call
MaxBalance == 3     \* highest balance a tracker reports
MaxMessages == 2    \* messages a websocket delivers during a run
MaxReceiptLogs == 2 \* logs in the receipt a message points to
MaxData == 2        \* distinct delivery payloads

\* --------------------------------------------------------------- constants
WAIT_SLEEP == 3
DEFAULT_TIMEOUT == 900
DELIVERY_MECH_INDEX == 1
Undefined == -1

ADDRESS_ZERO == [pfx |-> "0x", acct |-> 0]
IPFS_URL_TEMPLATE == "https://gateway.autonolas.tech/ipfs/f01701220{}"

\* ----------------------------------------------------------------- strings
IdStr == [pfx : BOOLEAN, up : BOOLEAN, v : 1..MaxId]
\* the spellings a caller passes: "ab..." and "0xAB..."
CallerIds == {s \in IdStr : s.pfx = s.up}
AddrStr == [pfx : {"0x", "0X", ""}, acct : 0..MaxMech]

StartsWith0x(s) == s.pfx = TRUE
With0x(s) == [s EXCEPT !.pfx = TRUE]
Strip0x(s) == [s EXCEPT !.pfx = FALSE]
ToLowerCase(s) == [s EXCEPT !.up = FALSE]

\* String.prototype.toLowerCase on an address: "0X" becomes "0x"
AddrToLowerCase(a) == [a EXCEPT !.pfx = IF a.pfx = "0X" THEN "0x" ELSE a.pfx]
AddrStartsWith0x(a) == a.pfx = "0x"

\* id.toLowerCase().replace(/^0x/, '')
NormalizeId(s) == Strip0x(ToLowerCase(s))

\* ---------------------------------------------------------------- JS object
Keys(o) == [i \in 1..Len(o) |-> o[i].k]
KeySet(o) == {o[i].k : i \in 1..Len(o)}
ValueSet(o) == {o[i].v : i \in 1..Len(o)}
Has(o, k) == \E i \in 1..Len(o) : o[i].k = k
KeyIndex(o, k) == CHOOSE i \in 1..Len(o) : o[i].k = k
Get(o, k) == o[CHOOSE i \in 1..Len(o) : o[i].k = k].v
MutPutAlone(o, k, v) == <<[k |-> k, v |-> v]>>
\* obj[k] = v: an existing key keeps its place, a new key goes last
Put(o, k, v) ==
    IF Has(o, k)
    THEN [i \in 1..Len(o) |-> IF o[i].k = k THEN [k |-> k, v |-> v] ELSE o[i]]
    ELSE Append(o, [k |-> k, v |-> v])

RECURSIVE Assign(_, _)
\* Object.assign(target, source)
Assign(target, source) ==
    IF source = <<>> THEN target
    ELSE Assign(Put(target, Head(source).k, Head(source).v), Tail(source))

Max(a, b) == IF a >= b THEN a ELSE b

RECURSIVE SeqsUpTo(_, _)
SeqsUpTo(S, n) ==
    IF n = 0 THEN {<<>>}
    ELSE LET shorter == SeqsUpTo(S, n - 1)
         IN shorter \cup {Append(s, x) : s \in {t \in shorter : Len(t) = n - 1}, x \in S}

VARIABLES
    now,                \* Date.now()
    callDur,            \* how long one chain call takes
    \* ---- the chain
    head,               \* latest block number
    chainLogs,          \* Deliver logs emitted so far, in block order
    \* ---- waitForMarketplaceDataUrl
    pc,
    requestIds, timeout, fromBlock,     \* arguments
    p1Start, idx, requestIdsData,       \* watchForMarketplaceData
    deliveryMechs, mechToRequestIds, mi, results,
    p2Start, currentFromBlock, logs, li, latestBlock, dataUrls,  \* watchForMechDataUrl
    returned,
    \* ---- sendMarketplaceRequest / sendRequest
    sub,                \* the locals of the running submitter
    \* ---- deliverViaSafe
    dlv,                \* the locals of the running delivery
    \* ---- the signer's account on the chain
    nonceCalls,         \* block tag of every getTransactionCount call so far
    \* ---- what happened so far (for the properties)
    hist

chainVars == <<head, chainLogs>>
monVars == <<pc, requestIds, timeout, fromBlock, p1Start, idx, requestIdsData,
             deliveryMechs, mechToRequestIds, mi, results,
             p2Start, currentFromBlock, logs, li, latestBlock, dataUrls, returned>>
otherVars == <<sub, dlv, nonceCalls>>
vars == <<now, callDur, chainVars, monVars, otherVars, hist>>

\* ------------------------------------------------------------ environment
\* What one mapRequestIdInfos(...).call() can hand back: a rejected promise, a
\* value that is no array, an array too short, or an array whose entry at
\* DELIVERY_MECH_INDEX is some string.
Responses ==
    {[kind |-> "error"], [kind |-> "notArray"], [kind |-> "short"]}
    \cup {[kind |-> "info", mech |-> a] : a \in AddrStr}

\* The marketplace reports a worker: a well-formed address other than zero.
ReportsWorker(r) ==
    r.kind = "info" /\ r.mech.pfx = "0x" /\ r.mech.acct # 0

\* The events of the IMech ABI, as the items of the ABI file
RequestEvent == [type |-> "event", name |-> "Request", inputs |-> <<"address", "bytes32", "bytes">>]
DeliverEvent == [type |-> "event", name |-> "Deliver", inputs |-> <<"bytes32", "uint256", "bytes">>]
IMechAbi == <<RequestEvent, DeliverEvent>>

\* A topic string: the keccak-256 hash of a signature text (hash), or the
\* characters themselves; pfx tells whether the string starts with "0x".
\* utils.ts calculateTopicId: keccak256 of name(type,...,type)
CalculateTopicId(event) ==
    [hash |-> TRUE, pfx |-> TRUE, name |-> event.name, inputs |-> event.inputs]

\* String.prototype.toLowerCase on the event names of the ABI
NameToLowerCase(n) ==
    CASE n = "Deliver" -> "deliver" [] n = "Request" -> "request" [] OTHER -> n

\* the string `0x${item.name.toLowerCase()}`
SimplifiedSignature(item) ==
    [hash |-> FALSE, pfx |-> TRUE, name |-> NameToLowerCase(item.name), inputs |-> <<>>]
EmptySignature == [hash |-> FALSE, pfx |-> FALSE, name |-> "", inputs |-> <<>>]

\* marketplace_interact.ts 138-152 (the same function at interact.ts 105-119)
GetEventSignatures(abi) ==
    LET Of(n) == IF \E i \in 1..Len(abi) : abi[i].type = "event" /\ abi[i].name = n
                 THEN SimplifiedSignature(
                        abi[CHOOSE i \in 1..Len(abi) : abi[i].type = "event" /\ abi[i].name = n])
                 ELSE EmptySignature
    IN  [request |-> Of("Request"), deliver |-> Of("Deliver")]

\* A Deliver log as the node returns it: the block it is in, the emitting
\* contract, topics[0] (the topic id of the event), topics[1] (the request
\* id, "0x" and lower case), the payload (0: data that does not decode).
Log(b, m, v, d) ==
    [blockNumber |-> b, address |-> [pfx |-> "0x", acct |-> m],
     topic0 |-> CalculateTopicId(DeliverEvent),
     topic |-> [pfx |-> TRUE, up |-> FALSE, v |-> v], data |-> d]
NewLogs(b) ==
    {<<>>} \cup {<<Log(b, m, v, d)>> : m \in 1..MaxMech, v \in 1..MaxId, d \in 0..MaxData}

\* eth_getLogs {fromBlock, toBlock: 'latest', address, topics: [deliverTopic]}
PastLogs(filter) ==
    SelectSeq(chainLogs, LAMBDA l : /\ l.blockNumber >= filter.fromBlock
                                    /\ l.address = filter.address
                                    /\ l.topic0 = filter.topics[1])

\* -------------------------------------------------- watchForMarketplaceData
TimeoutSeconds(t) == IF t = Undefined THEN DEFAULT_TIMEOUT ELSE t

\* delivery.ts 91-105: what one response does to requestIdsData
MutIsAssignedAlways(deliveryMech) == TRUE
IsAssigned(deliveryMech) == AddrToLowerCase(deliveryMech) # AddrToLowerCase(ADDRESS_ZERO)

MutRecordAssignmentAnyString(data, requestId, r) ==
    IF r.kind # "info" THEN data
    ELSE IF IsAssigned(r.mech) THEN Put(data, requestId, r.mech)
    ELSE data
RecordAssignment(data, requestId, r) ==
    IF r.kind # "info" THEN data
    ELSE IF ~AddrStartsWith0x(r.mech) THEN data
    ELSE IF IsAssigned(r.mech) THEN Put(data, requestId, r.mech)
    ELSE data

MutAnyAssigned(data, ids) == Len(Keys(data)) > 0
AllAssigned(data, ids) == Len(Keys(data)) = Len(ids)

MutTimedOutStrict(elapsedTime, t) == elapsedTime > TimeoutSeconds(t)
MutTimedOutDefault(elapsedTime, t) == elapsedTime >= DEFAULT_TIMEOUT
TimedOut(elapsedTime, t) == elapsedTime >= TimeoutSeconds(t)

\* the loop head: the deadline check, then the first poll of the tick
P1Check ==
    /\ pc = "p1_check"
    /\ LET late == TimedOut(now - p1Start, timeout)
           due == now - p1Start >= timeout
       IN /\ hist' = [hist EXCEPT
                        !.lateChecks = @ + (IF due THEN 1 ELSE 0),
                        !.p1Ret = IF late THEN "timeout" ELSE @,
                        !.p1RetElapsed = IF late THEN now - p1Start ELSE @]
          /\ IF late
             THEN /\ deliveryMechs' = requestIdsData
                  /\ pc' = "w_group"
                  /\ idx' = idx
             ELSE /\ idx' = 1
                  /\ pc' = IF Len(requestIds) = 0 THEN "p1_tick" ELSE "p1_poll"
                  /\ UNCHANGED deliveryMechs
    /\ UNCHANGED <<now, callDur, otherVars, chainVars, requestIds, timeout, fromBlock, p1Start,
                   requestIdsData, mechToRequestIds, mi, results, p2Start,
                   currentFromBlock, logs, li, latestBlock, dataUrls, returned>>

\* one iteration of the for loop: the call for requestIds[idx] and its handling
P1Poll ==
    /\ pc = "p1_poll"
    /\ \E r \in Responses :
        /\ now' = now + callDur
        /\ requestIdsData' = RecordAssignment(requestIdsData, requestIds[idx], r)
        /\ hist' = [hist EXCEPT
                      !.reported = @ \/ ReportsWorker(r),
                      !.zeroSeen = @ \/ (r.kind = "info" /\ r.mech = ADDRESS_ZERO),
                      !.recorded = IF requestIdsData' # requestIdsData
                                   THEN @ \cup {requestIds[idx]} ELSE @]
    /\ idx' = idx + 1
    /\ pc' = IF idx = Len(requestIds) THEN "p1_tick" ELSE "p1_poll"
    /\ UNCHANGED <<callDur, otherVars, chainVars, requestIds, timeout, fromBlock, p1Start,
                   deliveryMechs, mechToRequestIds, mi, results, p2Start,
                   currentFromBlock, logs, li, latestBlock, dataUrls, returned>>

\* the end of a tick: return when every id has a worker, else sleep
P1Tick ==
    /\ pc = "p1_tick"
    /\ IF AllAssigned(requestIdsData, requestIds)
       THEN /\ deliveryMechs' = requestIdsData
            /\ pc' = "w_group"
            /\ hist' = [hist EXCEPT !.p1Ret = "all", !.p1RetElapsed = now - p1Start]
            /\ UNCHANGED now
       ELSE /\ now' = now + WAIT_SLEEP
            /\ pc' = "p1_check"
            /\ hist' = [hist EXCEPT !.slept = @ + WAIT_SLEEP, !.p1Slept = @ + WAIT_SLEEP]
            /\ UNCHANGED deliveryMechs
    /\ UNCHANGED <<callDur, otherVars, chainVars, requestIds, timeout, fromBlock, p1Start, idx,
                   requestIdsData, mechToRequestIds, mi, results, p2Start,
                   currentFromBlock, logs, li, latestBlock, dataUrls, returned>>

\* -------------------------------------------------------- watchForMechDataUrl
Null == [null |-> TRUE]

\* IPFS_URL_TEMPLATE.replace('{}', deliveryData)
IpfsUrl(deliveryData) == [template |-> IPFS_URL_TEMPLATE, digest |-> deliveryData]

\* decodeParameters accepts the payload of the log
Decodes(log) == log.data # 0

MutGetEventDataAnyPayload(log) ==
    [requestId |-> IF StartsWith0x(log.topic)
                   THEN ToLowerCase(Strip0x(log.topic))
                   ELSE ToLowerCase(log.topic),
     deliveryData |-> log.data]
\* getEventData: null when the payload does not decode, else the request id
\* of topics[1] without prefix and in lower case, and the payload bytes
GetEventData(log) ==
    IF log.data = 0 THEN Null
    ELSE [requestId |-> IF StartsWith0x(log.topic)
                        THEN ToLowerCase(Strip0x(log.topic))
                        ELSE ToLowerCase(log.topic),
          deliveryData |-> log.data]

MutIsWatchedAsSpelled(reqIds, requestId) ==
    requestId \in {reqIds[i] : i \in 1..Len(reqIds)}
IsWatched(reqIds, requestId) ==
    NormalizeId(requestId) \in {NormalizeId(reqIds[i]) : i \in 1..Len(reqIds)}

MutRecordOverwrite(res, reqIds, requestId, deliveryData) ==
    IF IsWatched(reqIds, requestId) THEN Put(res, requestId, IpfsUrl(deliveryData))
    ELSE res
MutRecordUnwatched(res, reqIds, requestId, deliveryData) ==
    IF Has(res, requestId) THEN res
    ELSE Put(res, requestId, IpfsUrl(deliveryData))
\* delivery.ts 251-266: what one decoded log does to results
RecordDelivery(res, reqIds, requestId, deliveryData) ==
    IF Has(res, requestId) THEN res
    ELSE IF IsWatched(reqIds, requestId) THEN Put(res, requestId, IpfsUrl(deliveryData))
    ELSE res

\* the chain grows: one block, with at most one Deliver log in it
Mine ==
    /\ pc = "p2_getlogs"
    /\ head < MaxBlock
    /\ \E ls \in NewLogs(head + 1) :
        /\ Len(chainLogs) + Len(ls) <= MaxLogs
        /\ chainLogs' = chainLogs \o ls
    /\ head' = head + 1
    /\ UNCHANGED <<now, callDur, otherVars, monVars, hist>>

\* the scans of all workers share one cursor and one mapping
MutP2StartShared ==
    /\ pc = "p2_start"
    /\ p2Start' = now
    /\ hist' = [hist EXCEPT !.scans = @ + 1, !.scanSlept = 0, !.scanHead = 0]
    /\ pc' = "p2_getlogs"
    /\ UNCHANGED <<now, callDur, otherVars, chainVars, requestIds, timeout, fromBlock, p1Start, idx,
                   requestIdsData, deliveryMechs, mechToRequestIds, mi, results,
                   logs, li, latestBlock, returned, dataUrls, currentFromBlock>>
\* entry of watchForMechDataUrl for the worker mechToRequestIds[mi]
P2Start ==
    /\ pc = "p2_start"
    /\ dataUrls' = <<>>
    /\ p2Start' = now
    /\ currentFromBlock' = fromBlock
    /\ hist' = [hist EXCEPT !.scans = @ + 1, !.scanSlept = 0, !.scanHead = 0]
    /\ pc' = "p2_getlogs"
    /\ UNCHANGED <<now, callDur, otherVars, chainVars, requestIds, timeout, fromBlock, p1Start, idx,
                   requestIdsData, deliveryMechs, mechToRequestIds, mi, results,
                   logs, li, latestBlock, returned>>

\* delivery.ts 155: the mechDeliverSignature argument of the running scan.
\* marketplaceInteract passes the deliver signature it took at line 640; a
\* direct caller passes the topic id of the Deliver event.
MechDeliverSignature ==
    IF sub.pc = "interact" THEN sub.marketplaceDeliverSignature
    ELSE CalculateTopicId(DeliverEvent)

\* 163-166: the signature with "0x" in front
DeliverTopic(sig) == [sig EXCEPT !.pfx = TRUE]

\* 174-179: the filter of the getPastLogs call
LogFilter ==
    [fromBlock |-> currentFromBlock, address |-> mechToRequestIds[mi].k,
     topics |-> <<DeliverTopic(MechDeliverSignature)>>]

\* getLogs(currentFromBlock): the logs of the range, or [] when the call fails
P2GetLogs ==
    /\ pc = "p2_getlogs"
    /\ \E ok \in BOOLEAN :
        /\ now' = now + callDur
        /\ logs' = IF ok THEN PastLogs(LogFilter) ELSE <<>>
        /\ hist' = [hist EXCEPT !.scanned = TRUE, !.tickLen = Len(dataUrls),
                                !.scanHead = IF ok THEN head ELSE @]
    /\ latestBlock' = currentFromBlock
    /\ li' = 1
    /\ pc' = IF logs' = <<>> THEN "p2_advance" ELSE "p2_log"
    /\ UNCHANGED <<callDur, otherVars, chainVars, requestIds, timeout, fromBlock, p1Start, idx,
                   requestIdsData, deliveryMechs, mechToRequestIds, mi, results,
                   p2Start, currentFromBlock, dataUrls, returned>>

\* one iteration of the for loop over the logs of the scan
P2Log ==
    /\ pc = "p2_log"
    /\ LET log == logs[li]
           ev == GetEventData(log)
           reqIds == mechToRequestIds[mi].v
           checked == ev # Null /\ ~Has(dataUrls, ev.requestId)
           newUrls == IF ev = Null THEN dataUrls
                      ELSE RecordDelivery(dataUrls, reqIds, ev.requestId, ev.deliveryData)
       IN /\ latestBlock' = Max(latestBlock, log.blockNumber)
          /\ dataUrls' = newUrls
          /\ hist' = [hist EXCEPT
                        !.dup = IF /\ ev # Null
                                   /\ Has(dataUrls, ev.requestId)
                                   /\ Get(dataUrls, ev.requestId) # IpfsUrl(ev.deliveryData)
                                THEN Max(@, IF KeyIndex(dataUrls, ev.requestId) <= hist.tickLen
                                            THEN 2 ELSE 1)
                                ELSE @]
          /\ IF checked /\ Len(Keys(newUrls)) = Len(reqIds)
             THEN pc' = "w_merge" /\ li' = li
             ELSE /\ li' = li + 1
                  /\ pc' = IF li = Len(logs) THEN "p2_advance" ELSE "p2_log"
    /\ UNCHANGED <<now, callDur, otherVars, chainVars, requestIds, timeout, fromBlock, p1Start, idx,
                   requestIdsData, deliveryMechs, mechToRequestIds, mi, results,
                   p2Start, currentFromBlock, logs, returned>>

MutP2AdvanceByOne ==
    /\ pc = "p2_advance"
    /\ currentFromBlock' = currentFromBlock + 1
    /\ now' = now + WAIT_SLEEP
    /\ hist' = [hist EXCEPT !.slept = @ + WAIT_SLEEP, !.scanSlept = @ + WAIT_SLEEP]
    /\ pc' = IF TimedOut(now' - p2Start, timeout) THEN "w_merge" ELSE "p2_getlogs"
    /\ UNCHANGED <<callDur, otherVars, chainVars, requestIds, timeout, fromBlock, p1Start, idx,
                   requestIdsData, deliveryMechs, mechToRequestIds, mi, results,
                   p2Start, logs, li, latestBlock, dataUrls, returned>>

\* the end of a scan: move the cursor, sleep, then the deadline check
P2Advance ==
    /\ pc = "p2_advance"
    /\ currentFromBlock' = latestBlock + 1
    /\ now' = now + WAIT_SLEEP
    /\ hist' = [hist EXCEPT !.slept = @ + WAIT_SLEEP, !.scanSlept = @ + WAIT_SLEEP]
    /\ pc' = IF TimedOut(now' - p2Start, timeout) THEN "w_merge" ELSE "p2_getlogs"
    /\ UNCHANGED <<callDur, otherVars, chainVars, requestIds, timeout, fromBlock, p1Start, idx,
                   requestIdsData, deliveryMechs, mechToRequestIds, mi, results,
                   p2Start, logs, li, latestBlock, dataUrls, returned>>

\* ------------------------------------------------- waitForMarketplaceDataUrl
RECURSIVE GroupFrom(_, _)
GroupFrom(entries, acc) ==
    IF entries = <<>> THEN acc
    ELSE LET requestId == Head(entries).k
             deliveryMech == Head(entries).v
             sofar == IF Has(acc, deliveryMech) THEN Get(acc, deliveryMech) ELSE <<>>
         IN GroupFrom(Tail(entries), Put(acc, deliveryMech, Append(sofar, requestId)))

MutGroupPerId(mechs) ==
    [i \in 1..Len(mechs) |-> [k |-> mechs[i].v, v |-> <<mechs[i].k>>]]
\* marketplace_interact.ts 520-528: request ids grouped by delivery mech
GroupByMech(mechs) == GroupFrom(mechs, <<>>)

\* after phase 1: nothing assigned returns {}, else the ids are grouped
WGroup ==
    /\ pc = "w_group"
    /\ IF Len(Keys(deliveryMechs)) = 0
       THEN /\ returned' = <<>>
            /\ pc' = "done"
            /\ UNCHANGED <<mechToRequestIds, mi, results>>
       ELSE /\ mechToRequestIds' = GroupByMech(deliveryMechs)
            /\ results' = <<>>
            /\ mi' = 1
            /\ pc' = "p2_start"
            /\ UNCHANGED returned
    /\ UNCHANGED <<now, callDur, otherVars, chainVars, requestIds, timeout, fromBlock, p1Start, idx,
                   requestIdsData, deliveryMechs, p2Start, currentFromBlock, logs,
                   li, latestBlock, dataUrls, hist>>

\* Object.assign(results, dataUrls), then the next worker or the return
WMerge ==
    /\ pc = "w_merge"
    /\ results' = Assign(results, dataUrls)
    /\ IF mi < Len(mechToRequestIds)
       THEN mi' = mi + 1 /\ pc' = "p2_start" /\ UNCHANGED returned
       ELSE mi' = mi /\ pc' = "done" /\ returned' = results'
    /\ UNCHANGED <<now, callDur, otherVars, chainVars, requestIds, timeout, fromBlock, p1Start, idx,
                   requestIdsData, deliveryMechs, mechToRequestIds, p2Start,
                   currentFromBlock, logs, li, latestBlock, dataUrls, hist>>

HistInit ==
    [reported |-> FALSE, zeroSeen |-> FALSE, recorded |-> {}, p1Ret |-> "none",
     p1RetElapsed |-> 0, lateChecks |-> 0, scans |-> 0, scanned |-> FALSE,
     dup |-> 0, tickLen |-> 0, slept |-> 0, p1Slept |-> 0, scanSlept |-> 0,
     scanHead |-> 0]

SubIdle == [pc |-> "idle"]
DlvIdle == [pc |-> "idle"]

InitClock ==
    /\ now = 0
    /\ callDur \in 0..MaxCallDur
    /\ head = 1 /\ chainLogs = <<>>
    /\ nonceCalls = <<>>

MonLocals ==
    /\ fromBlock = 1
    /\ p1Start = 0 /\ idx = 1 /\ requestIdsData = <<>>
    /\ deliveryMechs = <<>> /\ mechToRequestIds = <<>> /\ mi = 1 /\ results = <<>>
    /\ p2Start = 0 /\ currentFromBlock = 1 /\ logs = <<>> /\ li = 1
    /\ latestBlock = 1 /\ dataUrls = <<>>
    /\ returned = <<>>
    /\ hist = HistInit

InitMonitor ==
    /\ InitClock
    /\ pc = "p1_check"
    /\ requestIds \in SeqsUpTo(CallerIds, MaxBatch)
    /\ timeout \in {0, WAIT_SLEEP, MaxTimeout}
    /\ MonLocals
    /\ sub = SubIdle /\ dlv = DlvIdle

NextMonitor ==
    \/ P1Check \/ P1Poll \/ P1Tick
    \/ WGroup \/ P2Start \/ Mine \/ P2GetLogs \/ P2Log \/ P2Advance \/ WMerge

SpecMonitor == InitMonitor /\ [][NextMonitor]_vars

MonIdle ==
    /\ pc = "idle" /\ requestIds = <<>> /\ timeout = 0
    /\ MonLocals

\* ------------------------------------- sendMarketplaceRequest, sendRequest
\* marketplace_interact.ts 12-14 and interact.ts 19-21
MAX_RETRIES == 3
TIMEOUT == 900
LEGACY_TIMEOUT == 300
\* the fee fallbacks of marketplace_interact.ts 400-401
FALLBACK_PRIORITY_FEE == 1000000
FALLBACK_MAX_FEE == 2000000

MaxRetries == 2         \* largest retries option passed (0: none passed)
MaxSubmitTimeout == 4   \* largest timeout option passed (0: none passed)
MaxSleep == 1           \* largest sleep option passed (0: none passed)
MaxUploadDur == 1       \* longest IPFS upload (seconds)
MaxNonce == 1           \* highest pending nonce of the signer during a run
BaseFees == {0, 10, 25} \* baseFeePerGas of the latest block (0: the field is absent)

\* retries || MAX_RETRIES, (timeout || TIMEOUT), (sleep || WAIT_SLEEP)
OrDefault(x, default) == IF x = 0 \/ x = Undefined THEN default ELSE x

SubmitTimeout(fn) == IF fn = "sendMarketplaceRequest" THEN TIMEOUT ELSE LEGACY_TIMEOUT

\* marketplace_interact.ts 399-401
MaxPriorityFeePerGas(baseFee) ==
    IF baseFee > 0 THEN baseFee \div 10 ELSE FALLBACK_PRIORITY_FEE
MaxFeePerGas(baseFee) ==
    IF baseFee > 0 THEN baseFee + MaxPriorityFeePerGas(baseFee) * 2 ELSE FALLBACK_MAX_FEE

\* the hash the node gives the transaction sent by one attempt
TxHashOf(attempt, nonce) == [attempt |-> attempt, nonce |-> nonce]

NoError == "none"

\* the exception of the try block: remembered, then the catch block runs
Throw(st, err) ==
    [st EXCEPT !.pc = "catch", !.error = err, !.events = Append(@, "fail"),
               !.thrown = Append(@, err)]

\* the tag getTransactionCount is called with at marketplace_interact.ts 397
RequestNonceTag == "pending"

InitSubmit ==
    /\ InitClock
    /\ MonIdle
    /\ dlv = DlvIdle
    /\ \E fn \in {"sendMarketplaceRequest", "sendRequest"},
          retries \in 0..MaxRetries, tmo \in 0..MaxSubmitTimeout, slp \in 0..MaxSleep,
          valid \in BOOLEAN :
        sub = [pc |-> "upload", fn |-> fn,
               retries |-> retries, timeout |-> tmo, sleep |-> slp,
               priorityMechValid |-> valid,
               tries |-> OrDefault(retries, MAX_RETRIES),
               sleepS |-> OrDefault(slp, WAIT_SLEEP),
               deadline |-> 0, attempt |-> 0,
               error |-> NoError, lastError |-> NoError,
               gasEstimate |-> "none", pendingNonce |-> 0, baseFee |-> 0,
               sent |-> <<>>, events |-> <<>>, thrown |-> <<>>, quotes |-> <<>>,
               chainNonce |-> 0,
               result |-> [kind |-> "running"]]

\* the IPFS upload and the deadline: sendMarketplaceRequest takes the deadline
\* first (336) and uploads after (339-350); sendRequest uploads first (148)
SUpload ==
    /\ sub.pc = "upload"
    /\ \E u \in 0..MaxUploadDur, ok \in BOOLEAN :
        /\ now' = now + u
        /\ LET tmo == OrDefault(sub.timeout, SubmitTimeout(sub.fn))
               base == IF sub.fn = "sendMarketplaceRequest" THEN now ELSE now'
           IN sub' = IF ok
                     THEN [sub EXCEPT !.pc = "loop", !.deadline = base + tmo]
                     ELSE [sub EXCEPT !.pc = "done",
                                      !.result = [kind |-> "throw", error |-> "upload"]]
    /\ UNCHANGED <<callDur, chainVars, monVars, dlv, nonceCalls, hist>>

MutSLoopNoDeadline ==
    /\ sub.pc = "loop"
    /\ sub' = IF sub.attempt < sub.tries
              THEN [sub EXCEPT !.pc = "build"]
              ELSE [sub EXCEPT !.pc = "exit"]
    /\ UNCHANGED <<now, callDur, chainVars, monVars, dlv, nonceCalls, hist>>
\* for (...; attempt < tries && Date.now() < deadline; ...)
SLoop ==
    /\ sub.pc = "loop"
    /\ sub' = IF sub.attempt < sub.tries /\ now < sub.deadline
              THEN [sub EXCEPT !.pc = "build"]
              ELSE [sub EXCEPT !.pc = "exit"]
    /\ UNCHANGED <<now, callDur, chainVars, monVars, dlv, nonceCalls, hist>>

\* building the call.  sendMarketplaceRequest: toChecksumAddress (365) throws
\* on an invalid priority mech; estimateGas (387-394) falls back to gasLimit.
\* sendRequest: getAccounts (162) may throw.
SBuild ==
    /\ sub.pc = "build"
    /\ IF sub.fn = "sendMarketplaceRequest"
       THEN IF ~sub.priorityMechValid
            THEN /\ sub' = Throw(sub, "toChecksumAddress")
                 /\ UNCHANGED now
            ELSE \E est \in {"estimate", "gasLimit"} :
                    /\ sub' = [sub EXCEPT !.pc = "quote", !.gasEstimate = est]
                    /\ now' = now + callDur
       ELSE \E ok \in BOOLEAN :
               /\ sub' = IF ok THEN [sub EXCEPT !.pc = "send", !.gasEstimate = "gasLimit"]
                         ELSE Throw(sub, "getAccounts")
               /\ now' = now + callDur
    /\ UNCHANGED <<callDur, chainVars, monVars, dlv, nonceCalls, hist>>

\* the quote is fetched by the first attempt only
MutSQuoteCached ==
    /\ sub.pc = "quote"
    /\ IF sub.attempt > 0 /\ sub.quotes # <<>>
       THEN /\ sub' = [sub EXCEPT !.pc = "send"]
            /\ UNCHANGED <<now, nonceCalls>>
       ELSE /\ nonceCalls' = Append(nonceCalls, RequestNonceTag)
            /\ now' = now + callDur
            /\ \/ sub' = Throw(sub, "getTransactionCount")
               \/ sub' = Throw(sub, "getBlock")
               \/ \E n \in sub.chainNonce..MaxNonce, b \in BaseFees :
                    sub' = [sub EXCEPT !.pc = "send", !.chainNonce = n,
                                       !.pendingNonce = n, !.baseFee = b,
                                       !.quotes = Append(@, [attempt |-> sub.attempt + 1,
                                                             nonce |-> n, baseFee |-> b])]
    /\ UNCHANGED <<callDur, chainVars, monVars, dlv, hist>>
\* marketplace_interact.ts 397-401: the pending nonce and the latest block
SQuote ==
    /\ sub.pc = "quote"
    /\ nonceCalls' = Append(nonceCalls, RequestNonceTag)
    /\ now' = now + callDur
    /\ \/ sub' = Throw(sub, "getTransactionCount")
       \/ sub' = Throw(sub, "getBlock")
       \/ \E n \in sub.chainNonce..MaxNonce, b \in BaseFees :
            sub' = [sub EXCEPT !.pc = "send", !.chainNonce = n,
                               !.pendingNonce = n, !.baseFee = b,
                               !.quotes = Append(@, [attempt |-> sub.attempt + 1,
                                                     nonce |-> n, baseFee |-> b])]
    /\ UNCHANGED <<callDur, chainVars, monVars, dlv, hist>>

\* what one attempt hands to tx.send
SendParams(st) ==
    IF st.fn = "sendMarketplaceRequest"
    THEN [attempt |-> st.attempt + 1, gas |-> st.gasEstimate, nonce |-> st.pendingNonce,
          type |-> "0x2",
          maxFeePerGas |-> MaxFeePerGas(st.baseFee),
          maxPriorityFeePerGas |-> MaxPriorityFeePerGas(st.baseFee)]
    ELSE [attempt |-> st.attempt + 1, gas |-> st.gasEstimate]

\* tx.send: accepted (the receipt's transactionHash is returned) or rejected
SSend ==
    /\ sub.pc = "send"
    /\ now' = now + callDur
    /\ LET st == [sub EXCEPT !.sent = Append(@, SendParams(sub))]
       IN \/ sub' = [st EXCEPT !.pc = "done",
                               !.events = Append(@, "ok"),
                               !.result = [kind |-> "hash",
                                           hash |-> TxHashOf(sub.attempt + 1, sub.pendingNonce)]]
          \/ sub' = Throw(st, "send")
    /\ UNCHANGED <<callDur, chainVars, monVars, dlv, nonceCalls, hist>>

MutSCatchNoSleep ==
    /\ sub.pc = "catch"
    /\ sub' = [sub EXCEPT !.pc = "loop",
                          !.lastError = IF sub.fn = "sendMarketplaceRequest"
                                        THEN sub.error ELSE @,
                          !.error = NoError,
                          !.attempt = @ + 1]
    /\ UNCHANGED <<now, callDur, chainVars, monVars, dlv, nonceCalls, hist>>
\* catch: remember the error (sendMarketplaceRequest only), sleep, next attempt
SCatch ==
    /\ sub.pc = "catch"
    /\ now' = now + sub.sleepS
    /\ sub' = [sub EXCEPT !.pc = "loop",
                          !.lastError = IF sub.fn = "sendMarketplaceRequest"
                                        THEN sub.error ELSE @,
                          !.error = NoError,
                          !.events = Append(@, "sleep"),
                          !.attempt = @ + 1]
    /\ UNCHANGED <<callDur, chainVars, monVars, dlv, nonceCalls, hist>>

\* after the loop: sendMarketplaceRequest throws lastError when there is one
\* (424-431); sendRequest returns null (182)
SExit ==
    /\ sub.pc = "exit"
    /\ sub' = [sub EXCEPT !.pc = "done",
                          !.result = IF sub.lastError # NoError
                                     THEN [kind |-> "throw", error |-> sub.lastError]
                                     ELSE [kind |-> "null"]]
    /\ UNCHANGED <<now, callDur, chainVars, monVars, dlv, nonceCalls, hist>>

NextSubmit == SUpload \/ SLoop \/ SBuild \/ SQuote \/ SSend \/ SCatch \/ SExit

SpecSubmit == InitSubmit /\ [][NextSubmit]_vars

\* ------------------------------------------------------------ deliverViaSafe
MaxSafeNonce == 1       \* highest nonce of the Safe during a run
MaxTxHash == 2          \* distinct transaction hashes an error can carry
RecoveryIds == {27, 28} \* v of account.sign
\* post_deliver.ts 377 and 424
SAFE_ETH_SIGN_OFFSET == 4
FALLBACK_PRIORITY == 1500000000
NoHash == 0

\* the tag getTransactionCount is called with at post_deliver.ts 408: none
\* (web3 then uses its default block)
DeliverNonceTag == "none"

\* the chain call just made is logged, and its latency passes
Called(st, name) == [st EXCEPT !.calls = Append(@, name)]
Fails(st, err) == [st EXCEPT !.pc = "done", !.result = [kind |-> "throw", error |-> err]]

\* 296-307: the locals of one deliverViaSafe call (wait defaults to true)
DlvStart(wait) ==
    [pc |-> "upload", wait |-> wait, calls |-> <<>>,
           safeNonce |-> 0, hashArgs |-> <<>>, txHashToSign |-> <<>>,
           v |-> 0, vAdjusted |-> 0, signature |-> <<>>,
           signedMessage |-> <<>>, execArgs |-> <<>>,
           txPayload |-> [nonce |-> 0],
           feeQuote |-> [baseFee |-> 0, suggested |-> 0],
           sendCount |-> 0, sendOutcome |-> "none",
           errReceiptHash |-> NoHash, errHash |-> NoHash,
           txHash |-> NoHash, receiptFor |-> NoHash, receipt |-> "none",
           result |-> [kind |-> "running"]]

InitSafe ==
    /\ InitClock
    /\ MonIdle
    /\ sub = SubIdle
    /\ \E wait \in BOOLEAN : dlv = DlvStart(wait)

\* 309-332: the upload, the digest of the CID, the web3 set-up, the inner call
DPrepare ==
    /\ dlv.pc = "upload"
    /\ \E outcome \in {"ok", "noCid", "badCid"} :
        dlv' = CASE outcome = "noCid" -> Fails(dlv, "IPFS registry upload failed")
                 [] outcome = "badCid" -> Fails(dlv, "extractSha256DigestFromCid")
                 [] OTHER -> [Called(Called(dlv, "getChainId"), "encodeAgentMechDeliverCall")
                                EXCEPT !.pc = "safeNonce"]
    /\ now' = now + callDur
    /\ UNCHANGED <<callDur, chainVars, monVars, sub, nonceCalls, hist>>

\* the nonce is a value kept from before, not read from the Safe
MutDSafeNonceCached ==
    /\ dlv.pc = "safeNonce"
    /\ \E n \in 0..MaxSafeNonce :
        dlv' = [dlv EXCEPT !.pc = "getTransactionHash", !.safeNonce = n]
    /\ now' = now + callDur
    /\ UNCHANGED <<callDur, chainVars, monVars, sub, nonceCalls, hist>>
\* 335: safe.methods.nonce().call()
DSafeNonce ==
    /\ dlv.pc = "safeNonce"
    /\ \E n \in 0..MaxSafeNonce :
        dlv' = [Called(dlv, "safe.nonce") EXCEPT !.pc = "getTransactionHash", !.safeNonce = n]
    /\ now' = now + callDur
    /\ UNCHANGED <<callDur, chainVars, monVars, sub, nonceCalls, hist>>

\* 338-349: the parameters of the Safe transaction
ParamsForHash(nonce) ==
    [to |-> "targetMechAddress", value |-> 0, data |-> "innerCallData", operation |-> 0,
     safeTxGas |-> 0, baseGas |-> 0, gasPrice |-> 0,
     gasToken |-> ADDRESS_ZERO, refundReceiver |-> ADDRESS_ZERO, nonce |-> nonce]

\* 352-363: the hash to sign is what the Safe contract returns for the parameters
DGetTransactionHash ==
    /\ dlv.pc = "getTransactionHash"
    /\ dlv' = [Called(dlv, "safe.getTransactionHash") EXCEPT
                 !.pc = "sign",
                 !.hashArgs = ParamsForHash(dlv.safeNonce),
                 !.txHashToSign = [safeTxHashOf |-> ParamsForHash(dlv.safeNonce)]]
    /\ now' = now + callDur
    /\ UNCHANGED <<callDur, chainVars, monVars, sub, nonceCalls, hist>>

MutExecTransactionArgs(params, signature) ==
    [to |-> "safeAddress", value |-> params.value, data |-> params.data,
     operation |-> params.operation, safeTxGas |-> params.safeTxGas,
     baseGas |-> params.baseGas, gasPrice |-> params.gasPrice,
     gasToken |-> params.gasToken, refundReceiver |-> params.refundReceiver,
     signatures |-> signature]
\* 386-397: the arguments of execTransaction, taken from paramsForHash
ExecTransactionArgs(params, signature) ==
    [to |-> params.to, value |-> params.value, data |-> params.data,
     operation |-> params.operation, safeTxGas |-> params.safeTxGas,
     baseGas |-> params.baseGas, gasPrice |-> params.gasPrice,
     gasToken |-> params.gasToken, refundReceiver |-> params.refundReceiver,
     signatures |-> signature]

MutVAdjustedRaw(v) == v
\* 377: Number(signedMsg.v) + 4
VAdjusted(v) == v + SAFE_ETH_SIGN_OFFSET

\* 366-397: the key, the signature (r, s, one byte v), the execTransaction data
DSign ==
    /\ dlv.pc = "sign"
    /\ \/ dlv' = Fails(dlv, "resolvePrivateKey")
       \/ \E v \in RecoveryIds :
            dlv' = [Called(Called(dlv, "account.sign"), "execTransaction.encodeABI") EXCEPT
                      !.pc = "nonce", !.v = v, !.vAdjusted = VAdjusted(v),
                      !.signedMessage = dlv.txHashToSign,
                      !.signature = <<"r", "s", VAdjusted(v)>>,
                      !.execArgs = ExecTransactionArgs(dlv.hashArgs,
                                                       <<"r", "s", VAdjusted(v)>>)]
    /\ UNCHANGED <<now, callDur, chainVars, monVars, sub, nonceCalls, hist>>

\* 408: web3.eth.getTransactionCount(checksumSender)
DNonce ==
    /\ dlv.pc = "nonce"
    /\ nonceCalls' = Append(nonceCalls, DeliverNonceTag)
    /\ now' = now + callDur
    /\ \/ dlv' = Fails(Called(dlv, "getTransactionCount"), "getTransactionCount")
       \/ \E n \in 0..MaxNonce :
            dlv' = [Called(dlv, "getTransactionCount") EXCEPT
                      !.pc = "estimateGas", !.txPayload = [nonce |-> n]]
    /\ UNCHANGED <<callDur, chainVars, monVars, sub, hist>>

\* 411-412: estimateGas, with no fallback
DEstimateGas ==
    /\ dlv.pc = "estimateGas"
    /\ now' = now + callDur
    /\ \/ dlv' = Fails(Called(dlv, "estimateGas"), "estimateGas")
       \/ dlv' = [Called(dlv, "estimateGas") EXCEPT
                    !.pc = "fees", !.txPayload = [nonce |-> @.nonce, gas |-> "gasEstimate"]]
    /\ UNCHANGED <<callDur, chainVars, monVars, sub, nonceCalls, hist>>

\* what getMaxPriorityFeePerGas suggests when it answers
SuggestedPriorityFees == {1, 2}
\* 415-430: EIP-1559 fees when the block has a base fee (the suggested priority
\* fee, or the fixed one when the suggestion fails), else the gas price
DFees ==
    /\ dlv.pc = "fees"
    /\ now' = now + callDur
    /\ \/ dlv' = Fails(Called(dlv, "getBlock"), "getBlock")
       \/ \E b \in BaseFees \ {0}, suggested \in SuggestedPriorityFees \cup {0} :
            LET priority == IF suggested = 0 THEN FALLBACK_PRIORITY ELSE suggested
            IN dlv' = [Called(Called(dlv, "getBlock"), "getMaxPriorityFeePerGas") EXCEPT
                         !.pc = "send",
                         !.feeQuote = [baseFee |-> b, suggested |-> suggested],
                         !.txPayload = [nonce |-> @.nonce, gas |-> @.gas,
                                        maxPriorityFeePerGas |-> priority,
                                        maxFeePerGas |-> b * 2 + priority]]
       \/ dlv' = Fails(Called(Called(dlv, "getBlock"), "getGasPrice"), "getGasPrice")
       \/ dlv' = [Called(Called(dlv, "getBlock"), "getGasPrice") EXCEPT
                    !.pc = "send",
                    !.feeQuote = [baseFee |-> 0, suggested |-> 0],
                    !.txPayload = [nonce |-> @.nonce, gas |-> @.gas,
                                   gasPrice |-> "getGasPrice"]]
    /\ UNCHANGED <<callDur, chainVars, monVars, sub, nonceCalls, hist>>

MutHashOfErrorOwnFirst(receiptHash, hash) ==
    IF hash # NoHash THEN hash ELSE receiptHash
\* 448-457: the hash an error of sendSignedTransaction carries
HashOfError(receiptHash, hash) ==
    IF receiptHash # NoHash THEN receiptHash
    ELSE IF hash # NoHash THEN hash
    ELSE NoHash

\* 460-463 and 465: the result before the receipt, returned as it is without wait
Submitted(st, txHash) ==
    [st EXCEPT !.txHash = txHash,
               !.result = IF st.wait THEN @
                          ELSE [kind |-> "return", tx_hash |-> txHash, status |-> "submitted"],
               !.pc = IF st.wait THEN "receipt" ELSE "done"]

\* 434-458: sign and send; an error that carries a hash is kept for the receipt
DSend ==
    /\ dlv.pc = "send"
    /\ now' = now + callDur
    /\ LET st == [Called(Called(dlv, "signTransaction"), "sendSignedTransaction")
                    EXCEPT !.sendCount = @ + 1]
       IN \/ dlv' = Fails(Called(dlv, "signTransaction"), "signTransaction")
          \/ \E h \in 1..MaxTxHash :
                dlv' = Submitted([st EXCEPT !.sendOutcome = "ok"], h)
          \/ \E rh \in 0..MaxTxHash, h \in 0..MaxTxHash :
                LET err == [st EXCEPT !.sendOutcome = "error",
                                      !.errReceiptHash = rh, !.errHash = h]
                IN dlv' = IF HashOfError(rh, h) = NoHash
                          THEN Fails(err, "sendSignedTransaction")
                          ELSE Submitted(err, HashOfError(rh, h))
    /\ UNCHANGED <<callDur, chainVars, monVars, sub, nonceCalls, hist>>

MutStatusOfPresent(receipt) ==
    IF receipt \in {"success", "failure"} THEN "confirmed" ELSE "unknown"
\* 469-500: the status of the result, from the receipt
StatusOf(receipt) ==
    CASE receipt = "success" -> "confirmed"
      [] receipt = "failure" -> "reverted"
      [] OTHER -> "unknown"

\* 469-500: block number and gas used are copied from a receipt that is there
ResultOf(txHash, receipt) ==
    IF receipt \in {"success", "failure"}
    THEN [kind |-> "return", tx_hash |-> txHash, status |-> StatusOf(receipt),
          block_number |-> "receipt.blockNumber", gas_used |-> "receipt.gasUsed"]
    ELSE [kind |-> "return", tx_hash |-> txHash, status |-> StatusOf(receipt)]

\* 467-503: getTransactionReceipt(txHash) and the classification
DReceipt ==
    /\ dlv.pc = "receipt"
    /\ now' = now + callDur
    /\ LET st == [Called(dlv, "getTransactionReceipt") EXCEPT !.receiptFor = dlv.txHash]
       IN \/ dlv' = Fails(st, "getTransactionReceipt")
          \/ \E receipt \in {"success", "failure", "null"} :
                dlv' = [st EXCEPT !.pc = "done", !.receipt = receipt,
                                  !.result = ResultOf(dlv.txHash, receipt)]
    /\ UNCHANGED <<callDur, chainVars, monVars, sub, nonceCalls, hist>>

NextSafe ==
    \/ DPrepare \/ DSafeNonce \/ DGetTransactionHash \/ DSign \/ DNonce
    \/ DEstimateGas \/ DFees \/ DSend \/ DReceipt

SpecSafe == InitSafe /\ [][NextSafe]_vars

\* watchForMarketplaceData on its own: the run ends where phase 1 returns
NextAssign == P1Check \/ P1Poll \/ P1Tick
SpecAssign == InitMonitor /\ [][NextAssign]_vars
\* the task is scheduled: a pending promise or timer of the loop is served
FairAssign == SpecAssign /\ WF_vars(NextAssign)

\* ------------------------------------------------- marketplaceInteract
\* marketplace_interact.ts 570-743: the part of marketplaceInteract that runs
\* before the request is submitted.
PaymentTypes == {"NATIVE", "TOKEN", "NATIVE_NVM", "TOKEN_NVM"}
\* what paymentType() of a mech can answer
MechPaymentTypes == PaymentTypes \cup {"unknown"}
IsNvmMech(pt) == pt \in {"NATIVE_NVM", "TOKEN_NVM"}

\* 570-640: the options and the locals of one marketplaceInteract call
InteractStart(pt, rate, n, prepaid, offchain) ==
    [pc |-> "fetchMechInfo", fn |-> "marketplaceInteract",
     mechPaymentType |-> pt, mechMaxDeliveryRate |-> rate,
     numRequests |-> n, usePrepaid |-> prepaid, useOffchain |-> offchain,
     price |-> 0, requesterBalance |-> 0, nvmBalance |-> 0, nvmNeeded |-> 0,
     txs |-> <<>>, result |-> [kind |-> "running"]]

Sent(st, tx) == [st EXCEPT !.txs = Append(@, tx)]

\* 157-200: four reads of the chain, then the validation of the payment type
FetchMechInfo ==
    /\ sub.pc = "fetchMechInfo"
    /\ sub' = IF sub.mechPaymentType \notin PaymentTypes
              THEN Fails(sub, "Invalid mech payment type")
              ELSE [sub EXCEPT !.pc = "payment"]
    /\ now' = now + callDur
    /\ UNCHANGED <<callDur, chainVars, monVars, dlv, nonceCalls, hist>>

\* 241-268: only the NATIVE and TOKEN trackers are asked
CheckPrepaidBalances(st, balance) ==
    IF st.mechPaymentType \in {"NATIVE", "TOKEN"}
    THEN IF balance < st.mechMaxDeliveryRate
         THEN Fails([st EXCEPT !.requesterBalance = balance],
                    "Insufficient deposited balance")
         ELSE [st EXCEPT !.pc = "nvm", !.price = 0, !.requesterBalance = balance]
    ELSE [st EXCEPT !.pc = "nvm", !.price = 0]

\* 205-232: approvePriceTokens answers 'allowance_exists', the hash of the
\* approve transaction, or null when allowance(), send() or the receipt threw
ApprovePriceTokens(st, outcome) ==
    CASE outcome = "allowance_exists" -> [st EXCEPT !.pc = "nvm", !.price = 0]
      [] outcome = "sent" -> [Sent(st, "approve") EXCEPT !.pc = "nvm", !.price = 0]
      [] outcome = "receiptFailed" ->
            [Sent(st, "approve") EXCEPT !.pc = "done", !.result = [kind |-> "null"]]
      [] OTHER -> [st EXCEPT !.pc = "done", !.result = [kind |-> "null"]]

ApproveOutcomes == {"allowance_exists", "sent", "sendFailed", "receiptFailed"}
APPROVE_WAIT == 5

\* every mech that is not prepaid gets the approve transaction
MutHandlePaymentApproveAlways ==
    /\ sub.pc = "payment"
    /\ \E balance \in 0..MaxBalance, outcome \in ApproveOutcomes :
        LET priced == [sub EXCEPT !.price = sub.mechMaxDeliveryRate * sub.numRequests]
        IN  /\ sub' = IF sub.usePrepaid
                      THEN CheckPrepaidBalances(sub, balance)
                      ELSE [ApprovePriceTokens(priced, outcome) EXCEPT !.price = priced.price]
            /\ now' = now + callDur + (IF sub.usePrepaid THEN 0 ELSE APPROVE_WAIT)
    /\ UNCHANGED <<callDur, chainVars, monVars, dlv, nonceCalls, hist>>

\* 646-690: the payment logic
HandlePayment ==
    /\ sub.pc = "payment"
    /\ \E balance \in 0..MaxBalance, outcome \in ApproveOutcomes :
        LET priced == [sub EXCEPT !.price = sub.mechMaxDeliveryRate * sub.numRequests]
            approves == ~sub.usePrepaid /\ sub.mechPaymentType = "TOKEN"
        IN  /\ sub' = IF sub.usePrepaid THEN CheckPrepaidBalances(sub, balance)
                      ELSE IF approves THEN ApprovePriceTokens(priced, outcome)
                      ELSE [priced EXCEPT !.pc = "nvm"]
            /\ now' = now + callDur
                      + (IF approves /\ sub'.pc = "nvm" THEN APPROVE_WAIT ELSE 0)
    /\ UNCHANGED <<callDur, chainVars, monVars, dlv, nonceCalls, hist>>

\* 692-717: the subscription balance of an NVM mech against the price
CheckNvm ==
    /\ sub.pc = "nvm"
    /\ \E balance \in 0..MaxBalance :
        sub' = IF ~IsNvmMech(sub.mechPaymentType) THEN [sub EXCEPT !.pc = "send"]
               ELSE IF balance < sub.price
               THEN Fails([sub EXCEPT !.nvmBalance = balance, !.nvmNeeded = sub.price],
                          "Insufficient Nevermined subscription balance")
               ELSE [sub EXCEPT !.pc = "send", !.price = 0,
                                !.nvmBalance = balance, !.nvmNeeded = sub.price]
    /\ now' = now + callDur
    /\ UNCHANGED <<callDur, chainVars, monVars, dlv, nonceCalls, hist>>

\* 721-743: the request goes to sendMarketplaceRequest unless it is off-chain
CallSendMarketplaceRequest ==
    /\ sub.pc = "send"
    /\ sub' = IF sub.useOffchain
              THEN [sub EXCEPT !.pc = "done", !.result = [kind |-> "offchain"]]
              ELSE [Sent(sub, "sendMarketplaceRequest")
                      EXCEPT !.pc = "done", !.result = [kind |-> "submitted"]]
    /\ now' = now + callDur
    /\ UNCHANGED <<callDur, chainVars, monVars, dlv, nonceCalls, hist>>

\* one run is either a marketplaceInteract call or a deliverViaSafe call
InitValidate ==
    /\ InitClock
    /\ MonIdle
    /\ \/ /\ dlv = DlvIdle
          /\ \E pt \in MechPaymentTypes, rate \in 0..MaxRate, n \in 0..MaxRequests,
                prepaid \in BOOLEAN, offchain \in BOOLEAN :
                sub = InteractStart(pt, rate, n, prepaid, offchain)
       \/ /\ sub = SubIdle
          /\ \E wait \in BOOLEAN : dlv = DlvStart(wait)

NextValidate ==
    \/ FetchMechInfo \/ HandlePayment \/ CheckNvm \/ CallSendMarketplaceRequest
    \/ NextSafe

SpecValidate == InitValidate /\ [][NextValidate]_vars

\* ------------------------------------------------ the websocket watchers
\* wss.ts 216-267 watchForDataUrlFromWss and 283-338
\* watchForMarketplaceDataUrlFromWss: a promise settled by the handlers of
\* the 'message', 'error' and 'close' events of the socket.

\* a log of a receipt: topics[0], the request it belongs to (for a Deliver
\* log of the marketplace also topics[1]), the payload
WssLogs ==
    [topic0 : {CalculateTopicId(RequestEvent), CalculateTopicId(DeliverEvent)},
     requestId : {s \in IdStr : s.pfx /\ ~s.up}, data : 1..MaxData]

\* what arrives on the socket: text that is no JSON, a message without
\* params.result.transactionHash (a subscription confirmation), or the
\* notification of a log whose transaction has the receipt logs
WssMessages ==
    {[json |-> FALSE, transactionHash |-> FALSE, logs |-> <<>>],
     [json |-> TRUE, transactionHash |-> FALSE, logs |-> <<>>]}
    \cup {[json |-> TRUE, transactionHash |-> TRUE, logs |-> ls] :
            ls \in SeqsUpTo(WssLogs, MaxReceiptLogs)}

WssWatchers == {"watchForDataUrlFromWss", "watchForMarketplaceDataUrlFromWss"}

\* the data URL a watcher resolves with
WssUrlOf(log) == [url |-> IPFS_URL_TEMPLATE, data |-> log.data]

\* 219-220, 266: the promise is pending, the three handlers are registered
InitWss ==
    /\ InitClock
    /\ MonIdle
    /\ dlv = DlvIdle
    /\ \E fn \in WssWatchers, id \in CallerIds :
        sub = [pc |-> "wss", fn |-> fn, requestId |-> id,
               deliverSignature |-> CalculateTopicId(DeliverEvent),
               open |-> TRUE, listening |-> TRUE,
               received |-> 0, awaiting |-> <<>>,
               settled |-> [kind |-> "pending"], from |-> Null]

\* resolve and reject act on a pending promise only
Settle(st, outcome) ==
    IF st.settled.kind = "pending" THEN [st EXCEPT !.settled = outcome] ELSE st

\* 221-227 (286-292): the handler parses the message and, when it names a
\* transaction, awaits its receipt; a text that does not parse is rejected
\* from the catch block
WsMessage ==
    /\ sub.pc = "wss" /\ sub.open
    /\ sub.received < MaxMessages
    /\ \E m \in WssMessages :
        LET got == [sub EXCEPT !.received = @ + 1]
        IN sub' = IF ~sub.listening THEN got
                  ELSE IF ~m.json THEN Settle(got, [kind |-> "reject", error |-> "JSON.parse"])
                  ELSE IF ~m.transactionHash THEN got
                  ELSE [got EXCEPT !.awaiting = Append(@, m.logs)]
    /\ UNCHANGED <<now, callDur, chainVars, monVars, dlv, nonceCalls, hist>>

RemoveAt(s, i) == SubSeq(s, 1, i - 1) \o SubSeq(s, i + 1, Len(s))

\* 229-243: the first log of the receipt decides
LegacyResume(st, receiptLogs) ==
    IF Len(receiptLogs) > 0 /\ receiptLogs[1].topic0 = st.deliverSignature
    THEN [Settle(st, [kind |-> "resolve", value |-> WssUrlOf(receiptLogs[1])])
            EXCEPT !.listening = FALSE,
                   !.from = IF st.settled.kind = "pending" THEN receiptLogs[1] ELSE @]
    ELSE st

\* 298-305: topics[0] is the deliver signature and topics[1] is the watched id
WssMatches(st, log) ==
    /\ log.topic0 = st.deliverSignature
    /\ \/ ToLowerCase(log.requestId) = ToLowerCase(st.requestId)
       \/ ToLowerCase(log.requestId) = With0x(ToLowerCase(st.requestId))

\* 294-311: the first log of the receipt that matches
MarketplaceResume(st, receiptLogs) ==
    IF \E i \in 1..Len(receiptLogs) : WssMatches(st, receiptLogs[i])
    THEN LET first == CHOOSE i \in 1..Len(receiptLogs) :
                        /\ WssMatches(st, receiptLogs[i])
                        /\ \A k \in 1..(i - 1) : ~WssMatches(st, receiptLogs[k])
         IN [Settle(st, [kind |-> "resolve", value |-> WssUrlOf(receiptLogs[first])])
               EXCEPT !.listening = FALSE,
                      !.from = IF st.settled.kind = "pending" THEN receiptLogs[first] ELSE @]
    ELSE st

\* a handler that awaited a receipt goes on, whether or not the listener is
\* still registered
WsHandlerResume ==
    /\ sub.pc = "wss"
    /\ \E i \in 1..Len(sub.awaiting) :
        LET rest == [sub EXCEPT !.awaiting = RemoveAt(@, i)]
        IN sub' = IF sub.fn = "watchForDataUrlFromWss"
                  THEN LegacyResume(rest, sub.awaiting[i])
                  ELSE MarketplaceResume(rest, sub.awaiting[i])
    /\ now' = now + callDur
    /\ UNCHANGED <<callDur, chainVars, monVars, dlv, nonceCalls, hist>>

\* 252-256 (323-327)
WsError ==
    /\ sub.pc = "wss" /\ sub.open
    /\ sub' = [Settle(sub, [kind |-> "reject", error |-> "error"]) EXCEPT !.listening = FALSE]
    /\ UNCHANGED <<now, callDur, chainVars, monVars, dlv, nonceCalls, hist>>

\* 258-263 (329-334): the connection is closed, nothing arrives after it
WsClose ==
    /\ sub.pc = "wss" /\ sub.open
    /\ sub' = [Settle(sub, [kind |-> "resolve", value |-> Null])
                 EXCEPT !.listening = FALSE, !.open = FALSE]
    /\ UNCHANGED <<now, callDur, chainVars, monVars, dlv, nonceCalls, hist>>

NextWss == WsMessage \/ WsHandlerResume \/ WsError \/ WsClose
SpecWss == InitWss /\ [][NextWss]_vars

\* ================================================================ properties
ScanPcs == {"p2_getlogs", "p2_log", "p2_advance"}

\* C1: every getTransactionCount call of a submission path is made with the
\* 'pending' block tag.
C1_NonceAlwaysPending ==
    \A i \in 1..Len(nonceCalls) : nonceCalls[i] = "pending"

\* C2: within one watchForMechDataUrl run, an entry of the result mapping is
\* never changed or removed by a later log, of the same scan or of a later one.
C2_RecordedUrlIsKept ==
    [][(pc \in ScanPcs) =>
         (\A i \in 1..Len(dataUrls) :
            Has(dataUrls', dataUrls[i].k) /\ Get(dataUrls', dataUrls[i].k) = dataUrls[i].v)
      ]_vars
\* a Deliver log of a later polling tick repeated a recorded id with another payload
C2_Witness == hist.dup = 2 /\ pc \in ScanPcs

\* C3: every key of the mapping built or returned by waitForMarketplaceDataUrl
\* is, up to prefix and case, an id phase 1 recorded a worker for.
C3_DeliveredOnlyIfAssigned ==
    \A k \in KeySet(dataUrls) \cup KeySet(results) \cup KeySet(returned) :
        \E id \in hist.recorded :
            /\ NormalizeId(id) = NormalizeId(k)
            /\ hist.p1Ret # "none"
\* a delivery is returned for one id of a batch of two, both with a logged Deliver
C3_Witness ==
    /\ pc = "done" /\ Len(returned) = 1 /\ Len(requestIds) = 2
    /\ Len(deliveryMechs) = 1
    /\ \E i, j \in 1..Len(chainLogs) : chainLogs[i].topic.v # chainLogs[j].topic.v

C7_OneScanPerWorker ==
    /\ hist.scans <= Cardinality(ValueSet(deliveryMechs))
    /\ pc = "done" => hist.scans = Cardinality(ValueSet(deliveryMechs))
\* two request ids with the same worker were watched by one scan
C7_Witness ==
    /\ pc = "done" /\ Len(deliveryMechs) = 2
    /\ Cardinality(ValueSet(deliveryMechs)) = 1 /\ hist.scans = 1

\* C8: no request id is ever mapped to the zero address, in any letter case.
C8_ZeroNeverRecorded ==
    \A a \in ValueSet(requestIdsData) \cup ValueSet(deliveryMechs) :
        AddrToLowerCase(a) # ADDRESS_ZERO
\* the marketplace reported the zero address and the id is absent at the return
C8_Witness ==
    /\ hist.zeroSeen /\ hist.p1Ret = "timeout" /\ timeout > 0
    /\ Len(requestIds) = 1 /\ deliveryMechs = <<>>

\* C9: a getPastLogs call is issued only after phase 1 returned, with every id
\* assigned or at a deadline check at or after its timeout.
C9_Phase1BeforePhase2 ==
    hist.scanned =>
        \/ /\ hist.p1Ret = "all"
           /\ \A i \in 1..Len(requestIds) : Has(deliveryMechs, requestIds[i])
        \/ /\ hist.p1Ret = "timeout"
           /\ hist.p1RetElapsed >= timeout
\* a scan was issued after phase 1 timed out with one id of two assigned
C9_Witness ==
    /\ hist.scanned /\ hist.p1Ret = "timeout"
    /\ Len(deliveryMechs) = 1 /\ Len(requestIds) = 2

\* C10 as stated: the whole wait ends within T plus one polling interval
\* (here even with the time spent inside chain calls left out).
C10_Original ==
    pc = "done" => hist.slept <= timeout + WAIT_SLEEP
\* C10 amended: the deadline is not shared.  Phase 1 and every phase-2 scan
\* each measure T from their own entry: each sleeps at most T plus one polling
\* interval, and the whole wait sleeps at most (1 + scans) times that.
C10_DeadlinePerLoop ==
    /\ hist.p1Slept <= timeout + WAIT_SLEEP
    /\ hist.scanSlept <= timeout + WAIT_SLEEP
    /\ hist.slept <= (1 + hist.scans) * (timeout + WAIT_SLEEP)
    /\ hist.scans <= Cardinality(ValueSet(deliveryMechs))
\* a wait over two workers that slept longer than T plus one interval
C10_Witness ==
    /\ pc = "done" /\ hist.scans = 2
    /\ hist.slept > timeout + WAIT_SLEEP

\* the send threw an error that carries a transaction hash
SendThrewWithHash ==
    dlv.sendOutcome = "error" /\ HashOfError(dlv.errReceiptHash, dlv.errHash) # NoHash

C6_ThirdAttemptSucceeds ==
    (/\ sub.pc = "done" /\ sub.tries = 3
     /\ SelectSeq(sub.events, LAMBDA x : x # "sleep") = <<"fail", "fail", "ok">>) =>
        /\ sub.result = [kind |-> "hash", hash |-> TxHashOf(3, sub.pendingNonce)]
        /\ sub.events = <<"fail", "sleep", "fail", "sleep", "ok">>
        /\ sub.sent[Len(sub.sent)].attempt = 3
\* two rejected sends, then an accepted one
C6_Witness ==
    /\ sub.pc = "done" /\ sub.tries = 3 /\ Len(sub.sent) = 3
    /\ sub.result.kind = "hash" /\ sub.fn = "sendMarketplaceRequest"


\* C11: a timeout makes watchForMarketplaceData and watchForMechDataUrl return
\* (they have no throwing path) the mapping as it stands: its keys are exactly
\* the ids recorded so far, and no step of either loop drops a recorded entry.
C11_TimeoutReturnsPartial ==
    [][/\ (pc = "p1_check" /\ pc' = "w_group") =>
            /\ deliveryMechs' = requestIdsData
            /\ KeySet(deliveryMechs') = hist.recorded
       /\ (pc \in {"p1_check", "p1_poll", "p1_tick"}) =>
            /\ KeySet(requestIdsData) \subseteq KeySet(requestIdsData')
            /\ KeySet(requestIdsData') = hist'.recorded
       /\ (pc = "p2_advance" /\ pc' = "w_merge") =>
            /\ dataUrls' = dataUrls
            /\ TimedOut(now' - p2Start, timeout)
       /\ (pc \in ScanPcs) =>
            (\A i \in 1..Len(dataUrls) : Len(dataUrls') >= i /\ dataUrls'[i] = dataUrls[i])
    ]_vars
\* a scan for two ids ends by timeout with one of them delivered
C11_Witness ==
    /\ pc = "w_merge" /\ Len(dataUrls) = 1 /\ Len(mechToRequestIds[mi].v) = 2
    /\ now - p2Start >= timeout
    /\ hist.p1Ret = "all"


\* the loop has ended with no accepted submission after at least one attempt
AllAttemptsFailed ==
    /\ sub.pc = "done" /\ Len(sub.thrown) >= 1
    /\ \A i \in 1..Len(sub.events) : sub.events[i] # "ok"

\* what C12 says of the attempts: at most N of them (N = the retries option,
\* else MAX_RETRIES), none started at or after the deadline, nothing sent
\* after the accepted submission, whose hash is returned
AttemptsWithinBudget ==
    [][/\ (sub.pc = "loop" /\ sub'.pc = "build") =>
            /\ now < sub.deadline
            /\ sub.attempt < (IF sub.retries = 0 THEN MAX_RETRIES ELSE sub.retries)
       /\ Len(sub'.thrown) <= (IF sub.retries = 0 THEN MAX_RETRIES ELSE sub.retries)
       /\ Len(sub'.sent) <= (IF sub.retries = 0 THEN MAX_RETRIES ELSE sub.retries)
       /\ (sub.pc = "send" /\ sub'.pc = "done") =>
            /\ sub'.result = [kind |-> "hash",
                              hash |-> TxHashOf(Len(sub.thrown) + 1, sub.pendingNonce)]
            /\ Len(sub'.sent) = Len(sub.sent) + 1
       /\ (sub.pc = "done") => sub' = sub
    ]_vars

UpperLetters ==
    <<"A", "B", "C", "D", "E", "F", "G", "H", "I", "J", "K", "L", "M", "N", "O", "P", "Q",
    "R", "S", "T", "U", "V", "W", "X", "Y", "Z">>
LowerLetters ==
    <<"a", "b", "c", "d", "e", "f", "g", "h", "i", "j", "k", "l", "m", "n", "o", "p", "q",
    "r", "s", "t", "u", "v", "w", "x", "y", "z">>
\* post_deliver.ts 76, ipfs.ts 168
Base32Chars ==
    <<"A", "B", "C", "D", "E", "F", "G", "H", "I", "J", "K", "L", "M", "N", "O", "P", "Q",
    "R", "S", "T", "U", "V", "W", "X", "Y", "Z", "2", "3", "4", "5", "6", "7">>
\* the alphabet of bs58
Base58Chars ==
    <<"1", "2", "3", "4", "5", "6", "7", "8", "9", "A", "B", "C", "D", "E", "F", "G", "H",
    "J", "K", "L", "M", "N", "P", "Q", "R", "S", "T", "U", "V", "W", "X", "Y", "Z", "a",
    "b", "c", "d", "e", "f", "g", "h", "i", "j", "k", "m", "n", "o", "p", "q", "r", "s",
    "t", "u", "v", "w", "x", "y", "z">>
\* the digits of Buffer.toString('hex')
HexChars ==
    <<"0", "1", "2", "3", "4", "5", "6", "7", "8", "9", "a", "b", "c", "d", "e", "f">>

\* String.prototype.indexOf for one character: -1 when it is absent
IndexOf(alphabet, ch) ==
    IF \E i \in 1..Len(alphabet) : alphabet[i] = ch
    THEN (CHOOSE i \in 1..Len(alphabet) : alphabet[i] = ch) - 1
    ELSE -1

CharToLower(ch) ==
    IF IndexOf(UpperLetters, ch) >= 0 THEN LowerLetters[IndexOf(UpperLetters, ch) + 1] ELSE ch
CharToUpper(ch) ==
    IF IndexOf(LowerLetters, ch) >= 0 THEN UpperLetters[IndexOf(LowerLetters, ch) + 1] ELSE ch
TextToLowerCase(t) == [i \in 1..Len(t) |-> CharToLower(t[i])]
TextToUpperCase(t) == [i \in 1..Len(t) |-> CharToUpper(t[i])]
TextStartsWith(t, p) == Len(t) >= Len(p) /\ SubSeq(t, 1, Len(p)) = p
\* Buffer.slice(a, b) and String.slice(a), zero based, the end clamped
Slice(s, a, b) == SubSeq(s, a + 1, IF b > Len(s) THEN Len(s) ELSE b)
SliceFrom(s, a) == SubSeq(s, a + 1, Len(s))
Repeat(ch, n) == [i \in 1..n |-> ch]
Pow2(n) == 2 ^ n

\* Buffer.toString('hex')
ToHex(bytes) ==
    [i \in 1..(2 * Len(bytes)) |->
        IF i % 2 = 1 THEN HexChars[(bytes[(i + 1) \div 2] \div 16) + 1]
        ELSE HexChars[(bytes[i \div 2] % 16) + 1]]

\* a value of a loop is computed before the next iteration starts
Computed(x) == x = x

\* the base32 loop of post_deliver.ts 81-93 and ipfs.ts 172-179.  It stops at
\* the first "=", passes over the characters outside the alphabet, shifts the
\* five bits of every other character into value and pushes the upper eight
\* of the pending bits as soon as there are eight: the bytes pushed are the
\* bit stream of the indexes cut into groups of eight, an incomplete last
\* group left out.  (value is a 32-bit integer whose bits 0..11 alone reach
\* a byte, so its overflow changes nothing.)
Base32Loop(b32Padded) ==
    LET stop == IF \E i \in 1..Len(b32Padded) : b32Padded[i] = "="
                THEN CHOOSE i \in 1..Len(b32Padded) :
                        /\ b32Padded[i] = "="
                        /\ \A k \in 1..(i - 1) : b32Padded[k] # "="
                ELSE Len(b32Padded) + 1
        all == [i \in 1..(stop - 1) |-> IndexOf(Base32Chars, b32Padded[i])]
        indexes == SelectSeq(all, LAMBDA x : x # -1)
        Bit(k) == (indexes[(k \div 5) + 1] \div Pow2(4 - (k % 5))) % 2
        Byte(j) == LET b == [t \in 0..7 |-> Bit(8 * (j - 1) + t)]
                   IN  b[0] * 128 + b[1] * 64 + b[2] * 32 + b[3] * 16
                       + b[4] * 8 + b[5] * 4 + b[6] * 2 + b[7]
    IN [j \in 1..((5 * Len(indexes)) \div 8) |-> Byte(j)]

\* ipfs.ts 163-181 (and the same lines inline at post_deliver.ts 66-95)
DecodeCidV1ToBytes(cidStr) ==
    LET lower == TextToLowerCase(cidStr)
        b32 == IF TextStartsWith(lower, <<"b">>) THEN SliceFrom(lower, 1) ELSE lower
        padLen == (8 - (Len(b32) % 8)) % 8
        b32Padded == TextToUpperCase(b32) \o Repeat("=", padLen)
    IN Base32Loop(b32Padded)

\* bs58.decode: acc (little endian) becomes acc * 58 + carry
RECURSIVE MulAdd58(_, _)
MulAdd58(acc, carry) ==
    IF acc = <<>> THEN (IF carry = 0 THEN <<>> ELSE <<carry % 256>> \o MulAdd58(<<>>, carry \div 256))
    ELSE LET x == Head(acc) * 58 + carry
         IN <<x % 256>> \o MulAdd58(Tail(acc), x \div 256)
RECURSIVE Bs58Digits(_, _, _)
Bs58Digits(text, i, acc) ==
    IF i > Len(text) THEN acc
    ELSE LET next == MulAdd58(acc, IndexOf(Base58Chars, text[i]))
         IN IF Computed(next) THEN Bs58Digits(text, i + 1, next) ELSE acc
RECURSIVE LeadingCount(_, _)
LeadingCount(s, x) ==
    IF s # <<>> /\ Head(s) = x THEN 1 + LeadingCount(Tail(s), x) ELSE 0
Reverse(s) == [i \in 1..Len(s) |-> s[Len(s) + 1 - i]]
\* the decoded bytes, or "throw" when a character is outside the alphabet
Bs58Decode(text) ==
    IF \E i \in 1..Len(text) : IndexOf(Base58Chars, text[i]) = -1 THEN "throw"
    ELSE LET zeroes == LeadingCount(text, "1")
         IN Repeat(0, zeroes) \o Reverse(Bs58Digits(text, zeroes + 1, <<>>))

Ok(v) == [ok |-> TRUE, value |-> v]
Err(msg) == [ok |-> FALSE, error |-> msg]

\* the version byte 0x01 is skipped, then the varint of the codec
RECURSIVE SkipVarint(_, _)
SkipVarint(cidBytes, at) ==
    IF at < Len(cidBytes)
    THEN IF (cidBytes[at + 1] \div 128) % 2 = 0 THEN at + 1
         ELSE SkipVarint(cidBytes, at + 1)
    ELSE at
SkipVersion(cidBytes) == IF 0 < Len(cidBytes) /\ cidBytes[1] = 1 THEN 1 ELSE 0

MutMultihashChecked(multihashBytes) ==
    IF Len(multihashBytes) < 34 THEN Err("Multihash too short")
    ELSE IF multihashBytes[1] # 18 THEN Err("Unexpected multihash code/length")
    ELSE Ok(Slice(multihashBytes, 2, 34))
\* post_deliver.ts 118-129
MultihashChecked(multihashBytes) ==
    IF Len(multihashBytes) < 34 THEN Err("Multihash too short")
    ELSE IF multihashBytes[1] # 18 \/ multihashBytes[2] # 32
         THEN Err("Unexpected multihash code/length")
    ELSE Ok(Slice(multihashBytes, 2, 34))

\* post_deliver.ts 58-130
ExtractSha256DigestFromCid(cidStr) ==
    IF TextStartsWith(cidStr, <<"Q", "m">>)
    THEN IF Bs58Decode(cidStr) = "throw" THEN Err("Non-base58 character")
         ELSE MultihashChecked(Bs58Decode(cidStr))
    ELSE LET cidBytes == DecodeCidV1ToBytes(cidStr)
             start == SkipVarint(cidBytes, SkipVersion(cidBytes))
         IN IF start >= Len(cidBytes) THEN Err("CID too short after skipping prefixes")
            ELSE MultihashChecked(SliceFrom(cidBytes, start))

\* ipfs.ts 183-197
ExtractCodecPlusMultihashHexFromCid(cidStr) ==
    IF TextStartsWith(cidStr, <<"Q", "m">>)
    THEN IF Bs58Decode(cidStr) = "throw" THEN Err("Non-base58 character")
         ELSE IF Len(Bs58Decode(cidStr)) < 34 THEN Err("Multihash too short")
         ELSE Ok(ToHex(<<112>> \o Bs58Decode(cidStr)))
    ELSE LET cidBytes == DecodeCidV1ToBytes(cidStr)
             afterVersion == SliceFrom(cidBytes, SkipVersion(cidBytes))
         IN IF Len(afterVersion) < 35 THEN Err("CID too short")
            ELSE Ok(ToHex(afterVersion))

\* the codec is taken to be one byte
MutExtractMultihashOneByteCodec(cidStr) ==
    IF TextStartsWith(cidStr, <<"Q", "m">>)
    THEN IF Bs58Decode(cidStr) = "throw" THEN Err("Non-base58 character")
         ELSE IF Len(Bs58Decode(cidStr)) < 34 THEN Err("Multihash too short")
         ELSE Ok(Bs58Decode(cidStr))
    ELSE LET cidBytes == DecodeCidV1ToBytes(cidStr)
             i == SkipVersion(cidBytes) + 1
         IN IF i >= Len(cidBytes) THEN Err("CID too short")
            ELSE IF Len(SliceFrom(cidBytes, i)) < 34 THEN Err("Multihash too short")
            ELSE Ok(SliceFrom(cidBytes, i))
\* ipfs.ts 199-214
ExtractMultihashBufferFromCid(cidStr) ==
    IF TextStartsWith(cidStr, <<"Q", "m">>)
    THEN IF Bs58Decode(cidStr) = "throw" THEN Err("Non-base58 character")
         ELSE IF Len(Bs58Decode(cidStr)) < 34 THEN Err("Multihash too short")
         ELSE Ok(Bs58Decode(cidStr))
    ELSE LET cidBytes == DecodeCidV1ToBytes(cidStr)
             i == SkipVarint(cidBytes, SkipVersion(cidBytes))
         IN IF i >= Len(cidBytes) THEN Err("CID too short")
            ELSE IF Len(SliceFrom(cidBytes, i)) < 34 THEN Err("Multihash too short")
            ELSE Ok(SliceFrom(cidBytes, i))

\* ipfs.ts 48-50: the multihash of lastHash, the sha2-256 check, the slice
RequestDigestOf(lastHash) ==
    LET mhBuf == ExtractMultihashBufferFromCid(lastHash)
    IN IF ~mhBuf.ok THEN mhBuf
       ELSE IF mhBuf.value[1] # 18 \/ mhBuf.value[2] # 32
            THEN Err("Unexpected multihash, expected sha2-256 32 bytes")
       ELSE Ok(Slice(mhBuf.value, 2, 34))

\* ipfs.ts 46-51: the truncated hash pushMetadataToIpfs returns for lastHash
TruncatedHashOf(lastHash) ==
    LET afterVersionHex == ExtractCodecPlusMultihashHexFromCid(lastHash)
        digest == RequestDigestOf(lastHash)
    IN IF ~afterVersionHex.ok THEN afterVersionHex
       ELSE IF ~digest.ok THEN digest
       ELSE Ok(<<"0", "x">> \o ToHex(digest.value))

\* ---- the CIDs handed to the extractors
MaxDigest == 1          \* digests 0..MaxDigest are rendered as CIDs
SHA2_256 == 18          \* multihash function code 0x12
DIGEST_LENGTH == 32
DAG_PB == 112           \* codec 0x70
DAG_JSON == <<169, 2>>  \* codec 0x0129 as a varint of two bytes

\* a digest of n bytes
DigestOf(k, n) == [i \in 1..n |-> (k * 83 + i * (k * 2 + 1) * 7) % 256]

\* RFC 4648 base32 in lower case without padding, as the registry renders it
RECURSIVE BitsOf(_)
BitsOf(bytes) ==
    IF bytes = <<>> THEN <<>>
    ELSE [j \in 1..8 |-> (Head(bytes) \div Pow2(8 - j)) % 2] \o BitsOf(Tail(bytes))
Base32Encode(bytes) ==
    LET bits == BitsOf(bytes)
        padded == bits \o Repeat(0, (5 - (Len(bits) % 5)) % 5)
    IN [g \in 1..(Len(padded) \div 5) |->
          CharToLower(Base32Chars[1 + padded[5 * g - 4] * 16 + padded[5 * g - 3] * 8
                                    + padded[5 * g - 2] * 4 + padded[5 * g - 1] * 2
                                    + padded[5 * g]])]

\* base58 (bitcoin alphabet), as CIDv0 is rendered
RECURSIVE MulAdd256(_, _)
MulAdd256(acc, carry) ==
    IF acc = <<>> THEN (IF carry = 0 THEN <<>> ELSE <<carry % 58>> \o MulAdd256(<<>>, carry \div 58))
    ELSE LET x == Head(acc) * 256 + carry
         IN <<x % 58>> \o MulAdd256(Tail(acc), x \div 58)
RECURSIVE Base58Digits(_, _, _)
Base58Digits(bytes, i, acc) ==
    IF i > Len(bytes) THEN acc
    ELSE LET next == MulAdd256(acc, bytes[i])
         IN IF Computed(next) THEN Base58Digits(bytes, i + 1, next) ELSE acc
Base58Encode(bytes) ==
    LET zeroes == LeadingCount(bytes, 0)
        digits == Reverse(Base58Digits(bytes, zeroes + 1, <<>>))
    IN Repeat("1", zeroes) \o [i \in 1..Len(digits) |-> Base58Chars[digits[i] + 1]]

\* a multihash: function code, declared length, digest bytes
Multihash(code, length, digest) == <<code, length>> \o digest
Multihashes ==
    {[code |-> c, length |-> l, digest |-> DigestOf(k, n)] :
        c \in {SHA2_256, SHA2_256 + 1}, l \in {DIGEST_LENGTH - 1, DIGEST_LENGTH, DIGEST_LENGTH + 1},
        k \in 0..MaxDigest, n \in {DIGEST_LENGTH, DIGEST_LENGTH + 1}}

\* a CID as text, with what it was rendered from
CidV0(mh) ==
    [form |-> "v0", code |-> mh.code, length |-> mh.length, digest |-> mh.digest,
     text |-> Base58Encode(Multihash(mh.code, mh.length, mh.digest))]
CidV1(mh, codec, upper) ==
    [form |-> "v1", code |-> mh.code, length |-> mh.length, digest |-> mh.digest,
     text |-> LET t == <<"b">> \o Base32Encode(<<1>> \o codec
                                   \o Multihash(mh.code, mh.length, mh.digest))
              IN IF upper THEN TextToUpperCase(t) ELSE t]
\* IPFS_URL_TEMPLATE: 'f01701220' followed by the hex of the digest
CidHex(digest) ==
    [form |-> "hex", code |-> SHA2_256, length |-> DIGEST_LENGTH, digest |-> digest,
     text |-> <<"f", "0", "1", "7", "0", "1", "2", "2", "0">> \o ToHex(digest)]

CidInputs ==
    {CidV0(mh) : mh \in Multihashes}
    \cup {CidV1(mh, codec, upper) : mh \in Multihashes, codec \in {<<DAG_PB>>, DAG_JSON},
                                    upper \in BOOLEAN}
    \cup {CidHex(DigestOf(k, DIGEST_LENGTH)) : k \in 0..MaxDigest}

InitCid ==
    /\ InitClock
    /\ MonIdle
    /\ \E c \in CidInputs :
        /\ dlv = [pc |-> "cid", cid |-> c, digestBytes |-> Err("none")]
        /\ sub = [pc |-> "cid", lastHash |-> c, truncatedHash |-> Err("none")]

\* post_deliver.ts 319: const digestBytes = extractSha256DigestFromCid(cid)
CExtract ==
    /\ dlv.pc = "cid"
    /\ dlv' = [dlv EXCEPT !.pc = "extracted",
                          !.digestBytes = ExtractSha256DigestFromCid(dlv.cid.text)]
    /\ UNCHANGED <<now, callDur, chainVars, monVars, sub, nonceCalls, hist>>

\* ipfs.ts 46-51: the multihash check of pushMetadataToIpfs
CPush ==
    /\ sub.pc = "cid"
    /\ sub' = [sub EXCEPT !.pc = "pushed",
                          !.truncatedHash = TruncatedHashOf(sub.lastHash.text)]
    /\ UNCHANGED <<now, callDur, chainVars, monVars, dlv, nonceCalls, hist>>

NextCid == CExtract \/ CPush

SpecCid == InitCid /\ [][NextCid]_vars

\* ---- strings that are no well-formed CID
\* text that is not rendered from a version byte, a codec and a multihash
Other(text) ==
    [form |-> "other", code |-> 0, length |-> 0, digest |-> <<>>, text |-> text]
Sha256Multihash(k) == Multihash(SHA2_256, DIGEST_LENGTH, DigestOf(k, DIGEST_LENGTH))
MalformedCids ==
    {Other(<<>>), Other(<<"b">>), Other(<<"Q", "m">>),
     \* a character outside the base58 alphabet
     Other(<<"Q", "m", "0">> \o Base58Encode(Sha256Multihash(0))),
     \* the version byte and the codec only
     Other(<<"b">> \o Base32Encode(<<1, DAG_PB>>)),
     \* a varint that does not end
     Other(<<"b">> \o Base32Encode(<<1, 129, 129>>))}
    \cup UNION {{
     \* no version byte
     Other(<<"b">> \o Base32Encode(<<DAG_PB>> \o Sha256Multihash(k))),
     \* no codec: the function code is taken for it
     Other(<<"b">> \o Base32Encode(<<1>> \o Sha256Multihash(k))),
     \* no multibase letter
     Other(Base32Encode(<<1, DAG_PB>> \o Sha256Multihash(k))),
     \* characters outside the base32 alphabet in between
     Other(<<"b", "1", "-">> \o Base32Encode(<<1, DAG_PB>> \o Sha256Multihash(k))),
     \* the last digest byte is missing
     Other(<<"b">> \o Base32Encode(<<1, DAG_PB>>
                                   \o SubSeq(Sha256Multihash(k), 1, DIGEST_LENGTH + 1)))
     } : k \in 0..MaxDigest}

\* both extractors are given the same string
InitExtract ==
    /\ InitClock
    /\ MonIdle
    /\ \E c \in CidInputs \cup MalformedCids :
        /\ dlv = [pc |-> "cid", cid |-> c, digestBytes |-> Err("none")]
        /\ sub = [pc |-> "cid", lastHash |-> c, digest |-> Err("none")]

\* ipfs.ts 48-50, the same lines at 77-79
CRequestDigest ==
    /\ sub.pc = "cid"
    /\ sub' = [sub EXCEPT !.pc = "digested", !.digest = RequestDigestOf(sub.lastHash.text)]
    /\ UNCHANGED <<now, callDur, chainVars, monVars, dlv, nonceCalls, hist>>

NextExtract == CExtract \/ CRequestDigest
SpecExtract == InitExtract /\ [][NextExtract]_vars


\* C14: a CID whose multihash function code is not 0x12, or whose declared
\* digest length is not 32, makes both extractors fail with an error and
\* return no digest, in the base58 form and in the base32 form alike.
C14_UnsupportedDigestRejected ==
    /\ (dlv.pc = "extracted" /\ dlv.cid.form \in {"v0", "v1"}
        /\ (dlv.cid.code # SHA2_256 \/ dlv.cid.length # DIGEST_LENGTH)) =>
            /\ ~dlv.digestBytes.ok
            /\ dlv.digestBytes.error # "none"
    /\ (sub.pc = "pushed" /\ sub.lastHash.form \in {"v0", "v1"}
        /\ (sub.lastHash.code # SHA2_256 \/ sub.lastHash.length # DIGEST_LENGTH)) =>
            /\ ~sub.truncatedHash.ok
            /\ sub.truncatedHash.error # "none"
\* a 'Qm' CID of 34 bytes declares 33 digest bytes and both extractors have
\* rejected it at the code/length check
C14_Witness ==
    /\ dlv.pc = "extracted" /\ sub.pc = "pushed"
    /\ dlv.cid.form = "v0" /\ TextStartsWith(dlv.cid.text, <<"Q", "m">>)
    /\ dlv.cid.code = SHA2_256 /\ dlv.cid.length = DIGEST_LENGTH + 1
    /\ dlv.digestBytes = Err("Unexpected multihash code/length")
    /\ sub.truncatedHash = Err("Unexpected multihash, expected sha2-256 32 bytes")

\* C15: the digest rendered in the URL template form ('f01701220' and the hex of
\* the digest) and handed to the extractor comes back as the same digest.
C15_HexRoundTrip ==
    (dlv.pc = "extracted" /\ dlv.cid.form = "hex") =>
        dlv.digestBytes = Ok(dlv.cid.digest)


\* C16: the signature deliverViaSafe assembles is r, then s, then one byte,
\* and that byte is the signer's recovery id plus 4.
C16_RecoveryIdPlusFour ==
    (dlv.pc \in {"nonce", "estimateGas", "fees", "send", "receipt"}
        \/ (dlv.pc = "done" /\ dlv.v # 0)) =>
        /\ dlv.v \in RecoveryIds
        /\ Len(dlv.signature) = 3
        /\ dlv.signature[1] = "r" /\ dlv.signature[2] = "s"
        /\ dlv.signature[3] = dlv.v + 4
\* a delivery signed with recovery id 28 went through: the byte is 32
C16_Witness ==
    /\ dlv.pc = "done" /\ dlv.result.kind = "return"
    /\ dlv.v = 28 /\ dlv.signature[3] = 32


\* ------------------------------------------- marketplaceInteract, on chain
\* From the returned transaction digest on (marketplace_interact.ts 750-796):
\* the receipt wait, the request ids of the receipt, then either the postOnly
\* return or the delivery wait.  The locals are kept in sub.
MaxReceiptPolls == 2    \* polls of waitForReceipt that are counted
RECEIPT_SLEEP == 1      \* wss.ts 118: sleep(1000)
InteractTimeouts == {WAIT_SLEEP}
InteractPcs == {"mi_receipt", "mi_request_ids", "mi_branch"}

\* String(id) of a decoded bytes32: "0x" and lower case hex
ReceiptIds == {s \in IdStr : s.pfx /\ ~s.up}

\* marketplace_interact.ts 768-770
NormalizedRequestIds(ids) ==
    [i \in 1..Len(ids) |->
        IF StartsWith0x(ids[i]) THEN ToLowerCase(Strip0x(ids[i])) ELSE ToLowerCase(ids[i])]

InitInteract ==
    /\ InitClock
    /\ pc = "mi_receipt" /\ requestIds = <<>> /\ timeout = 0
    /\ MonLocals
    /\ dlv = DlvIdle
    /\ \E postOnly \in BOOLEAN, after \in 0..(MaxReceiptPolls + 1),
          ids \in SeqsUpTo(ReceiptIds, MaxBatch), tmo \in InteractTimeouts :
        sub = [pc |-> "interact", postOnly |-> postOnly, timeout |-> tmo,
               marketplaceDeliverSignature |-> GetEventSignatures(IMechAbi).deliver,
               transactionDigest |-> "0xtx",
               receiptAfter |-> after,      \* polls before the receipt exists
               logIds |-> ids,              \* the request ids in its logs
               polls |-> 0, receiptCalls |-> 0,
               txReceipt |-> Null, ids |-> <<>>,
               result |-> [kind |-> "running"]]

\* the receipt exists once receiptAfter polls have gone by; with
\* receiptAfter > MaxReceiptPolls it never does
ReceiptOf(st) ==
    IF st.polls >= st.receiptAfter
    THEN [blockNumber |-> head, requestIds |-> st.logIds]
    ELSE Null

\* wss.ts 108-120, called at marketplace_interact.ts 755: one iteration.  The
\* loop keeps no count and reads no clock, so polls past MaxReceiptPolls
\* leave the state as it is.
WaitForReceipt ==
    /\ pc = "mi_receipt"
    /\ IF ReceiptOf(sub) # Null
       THEN /\ sub' = [sub EXCEPT !.txReceipt = ReceiptOf(sub), !.receiptCalls = @ + 1]
            /\ fromBlock' = ReceiptOf(sub).blockNumber
            /\ now' = now + callDur
            /\ pc' = "mi_request_ids"
       ELSE IF sub.polls < MaxReceiptPolls
       THEN /\ sub' = [sub EXCEPT !.polls = @ + 1]
            /\ now' = now + callDur + RECEIPT_SLEEP
            /\ UNCHANGED <<fromBlock, pc>>
       ELSE UNCHANGED <<sub, fromBlock, now, pc>>
    /\ UNCHANGED <<callDur, chainVars, dlv, nonceCalls, requestIds, timeout, p1Start, idx,
                   requestIdsData, deliveryMechs, mechToRequestIds, mi, results, p2Start,
                   currentFromBlock, logs, li, latestBlock, dataUrls, returned, hist>>

\* wss.ts 177-205, called at 758: the receipt once more, then the ids of its
\* MarketplaceRequest logs
WatchForMarketplaceRequestIds ==
    /\ pc = "mi_request_ids"
    /\ sub' = [sub EXCEPT !.ids = ReceiptOf(sub).requestIds, !.receiptCalls = @ + 1]
    /\ now' = now + callDur
    /\ pc' = "mi_branch"
    /\ UNCHANGED <<callDur, chainVars, dlv, nonceCalls, requestIds, timeout, fromBlock, p1Start,
                   idx, requestIdsData, deliveryMechs, mechToRequestIds, mi, results, p2Start,
                   currentFromBlock, logs, li, latestBlock, dataUrls, returned, hist>>

MutPostOrWaitAlwaysWaits ==
    /\ pc = "mi_branch"
    /\ pc' = "p1_check"
    /\ requestIds' = NormalizedRequestIds(sub.ids)
    /\ timeout' = sub.timeout
    /\ p1Start' = now
    /\ UNCHANGED sub
    /\ UNCHANGED <<now, callDur, chainVars, dlv, nonceCalls, fromBlock, idx,
                   requestIdsData, deliveryMechs, mechToRequestIds, mi, results, p2Start,
                   currentFromBlock, logs, li, latestBlock, dataUrls, returned, hist>>
\* 765-796: with postOnly the hash and the ids are returned, else
\* waitForMarketplaceDataUrl is entered with the normalised ids
PostOrWait ==
    /\ pc = "mi_branch"
    /\ IF sub.postOnly
       THEN /\ sub' = [sub EXCEPT !.result = [kind |-> "return",
                                              transaction_hash |-> sub.transactionDigest,
                                              request_ids |-> sub.ids]]
            /\ pc' = "done"
            /\ UNCHANGED <<requestIds, timeout, p1Start>>
       ELSE /\ pc' = "p1_check"
            /\ requestIds' = NormalizedRequestIds(sub.ids)
            /\ timeout' = sub.timeout
            /\ p1Start' = now
            /\ UNCHANGED sub
    /\ UNCHANGED <<now, callDur, chainVars, dlv, nonceCalls, fromBlock, idx,
                   requestIdsData, deliveryMechs, mechToRequestIds, mi, results, p2Start,
                   currentFromBlock, logs, li, latestBlock, dataUrls, returned, hist>>

\* the steps up to the branch on postOnly
NextReceipt == WaitForReceipt \/ WatchForMarketplaceRequestIds \/ PostOrWait
SpecReceipt == InitInteract /\ [][NextReceipt]_vars
FairReceipt == SpecReceipt /\ WF_vars(NextReceipt)

\* the whole on-chain flow, every step of the wait included
NextInteractAll == NextReceipt \/ NextMonitor
SpecInteractAll == InitInteract /\ [][NextInteractAll]_vars
\* the filter built from the signature of line 640 selects no log, so the
\* loop over the logs of a scan has nothing to run on
InteractLogsEmpty == logs = <<>> /\ pc # "p2_log"

\* the on-chain flow with the steps it can take (P2Log is never enabled:
\* InteractLogsEmpty holds under SpecInteractAll)
NextInteract ==
    \/ NextReceipt
    \/ P1Check \/ P1Poll \/ P1Tick
    \/ WGroup \/ P2Start \/ Mine \/ P2GetLogs \/ P2Advance \/ WMerge
SpecInteract == InitInteract /\ [][NextInteract]_vars

\* waitForMarketplaceDataUrl called with ids as line 768-770 leaves them
\* (no prefix, lower case) and with the topic id of the Deliver event
NormalizedIds == {s \in IdStr : ~s.pfx /\ ~s.up}
InitWait ==
    /\ InitClock
    /\ pc = "p1_check"
    /\ requestIds \in SeqsUpTo(NormalizedIds, MaxBatch)
    /\ timeout \in {0, WAIT_SLEEP, MaxTimeout}
    /\ MonLocals
    /\ sub = SubIdle /\ dlv = DlvIdle
SpecWait == InitWait /\ [][NextMonitor]_vars

\* C17: every polling loop has a deadline, so the receipt wait that follows the
\* request transaction ends even when the receipt never appears.
C17_ReceiptWaitEnds ==
    <>(pc \notin {"mi_receipt"})

\* C18: with postOnly the delivery wait is never entered: no step of
\* watchForMarketplaceData or watchForMechDataUrl runs, and the transaction
\* hash and the request ids are returned by the step that follows the
\* reading of the ids from the receipt.
C18_PostOnlySkipsMonitoring ==
    [][sub.postOnly =>
        /\ pc \in InteractPcs \cup {"done"}
        /\ pc' \in InteractPcs \cup {"done"}
        /\ hist' = HistInit /\ requestIdsData' = <<>> /\ dataUrls' = <<>>
        /\ (pc = "mi_branch") =>
              /\ pc' = "done" /\ now' = now
              /\ sub'.result = [kind |-> "return", transaction_hash |-> "0xtx",
                                request_ids |-> sub.logIds]
    ]_vars
\* a postOnly call has returned two request ids
C18_Witness ==
    /\ sub.postOnly /\ pc = "done" /\ sub.result.kind = "return"
    /\ Len(sub.result.request_ids) = 2 /\ sub.polls > 0


\* ------------------------------------------------------ private key resolution
\* What each place a key can come from holds: nothing, blank text, or a key.
SourceStates == {"absent", "blank", "key"}
KeySources == {"value", "file", "env", "operate"}
NoKeyConfig == [source |-> "none"]
KeyConfigs == {NoKeyConfig} \cup {[source |-> s] : s \in KeySources \cup {"other"}}

\* the text a source holds, after trim(): its key (named after the source) or ""
Trimmed(name, state) == IF state = "key" THEN name ELSE ""

\* config.ts 248-302: the first ethereum key of the first service, else throws
ResolveOperateKey(env) ==
    IF env.operate = "key" THEN Ok(Trimmed("operate", env.operate))
    ELSE Err("operate")

\* config.ts 307-357
ResolvePrivateKey(keyConfig, env) ==
    IF keyConfig # NoKeyConfig
    THEN CASE keyConfig.source = "value" ->
                IF Trimmed("value", env.value) = ""
                THEN Err("KeyConfig source set to value but no value provided")
                ELSE Ok(Trimmed("value", env.value))
           [] keyConfig.source = "file" ->
                IF env.file = "absent" THEN Err("Private key file not found")
                ELSE Ok(Trimmed("file", env.file))
           [] keyConfig.source = "env" ->
                IF Trimmed("env", env.env) = ""
                THEN Err("Environment variable not set or empty")
                ELSE Ok(Trimmed("env", env.env))
           [] keyConfig.source = "operate" -> ResolveOperateKey(env)
           [] OTHER -> Err("Unsupported KeyConfig source")
    ELSE IF env.file # "absent" THEN Ok(Trimmed("file", env.file))
    ELSE IF Trimmed("env", env.env) # "" THEN Ok(Trimmed("env", env.env))
    ELSE IF ResolveOperateKey(env).ok THEN ResolveOperateKey(env)
    ELSE Err("No private key found")

InitKey ==
    /\ InitClock
    /\ MonIdle
    /\ sub = SubIdle
    /\ \E keyConfig \in KeyConfigs,
          env \in [value : SourceStates, file : SourceStates, env : SourceStates,
                   operate : {"absent", "key"}, privateKey : SourceStates] :
        dlv = [pc |-> "key", keyConfig |-> keyConfig, env |-> env,
               caller |-> "none", pk |-> Err("none"), filesWritten |-> 0]

\* post_deliver.ts 366-370: a KeyConfig, else the privateKey option when it is
\* not blank, else the legacy chain
ResolveForDelivery ==
    /\ dlv.pc = "key"
    /\ dlv' = [dlv EXCEPT
                 !.pc = "resolved", !.caller = "deliverViaSafe",
                 !.pk = IF dlv.keyConfig # NoKeyConfig
                        THEN ResolvePrivateKey(dlv.keyConfig, dlv.env)
                        ELSE IF Trimmed("privateKey", dlv.env.privateKey) # ""
                        THEN Ok(Trimmed("privateKey", dlv.env.privateKey))
                        ELSE ResolvePrivateKey(NoKeyConfig, dlv.env)]
    /\ UNCHANGED <<now, callDur, chainVars, monVars, sub, nonceCalls, hist>>

\* marketplace_interact.ts 619-621
ResolveForRequest ==
    /\ dlv.pc = "key"
    /\ dlv' = [dlv EXCEPT
                 !.pc = "resolved", !.caller = "marketplaceInteract",
                 !.pk = ResolvePrivateKey(dlv.keyConfig, dlv.env)]
    /\ UNCHANGED <<now, callDur, chainVars, monVars, sub, nonceCalls, hist>>

NextKey == ResolveForDelivery \/ ResolveForRequest
SpecKey == InitKey /\ [][NextKey]_vars

\* the first of key file, environment variable and .operate that holds a key
FirstLegacyKey(env) ==
    IF env.file = "key" THEN Ok("file")
    ELSE IF env.env = "key" THEN Ok("env")
    ELSE IF env.operate = "key" THEN Ok("operate")
    ELSE Err("No private key found")

\* C19: a KeyConfig is the only source when one is given, and a source that
\* holds no key is an error; without a KeyConfig (and without an inline key)
\* the key file, MECH_PRIVATE_KEY and .operate are tried in that order and the
\* first that yields a key wins; no file is written.
C19_KeyResolutionOrder ==
    (dlv.pc = "resolved") =>
        /\ dlv.filesWritten = 0
        /\ (dlv.keyConfig.source \in KeySources) =>
              IF dlv.env[dlv.keyConfig.source] = "key"
              THEN dlv.pk = Ok(dlv.keyConfig.source)
              ELSE ~dlv.pk.ok
        /\ (dlv.keyConfig.source = "other") => ~dlv.pk.ok
        /\ (dlv.keyConfig = NoKeyConfig
            /\ (dlv.caller = "deliverViaSafe" => dlv.env.privateKey = "absent")) =>
              dlv.pk = FirstLegacyKey(dlv.env)


\* deliverViaSafe has returned a result
Delivered == dlv.pc = "done" /\ dlv.result.kind = "return"
\* the result reports the block number and the gas used
ReportsBlockAndGas ==
    {"block_number", "gas_used"} \subseteq DOMAIN dlv.result
ReportsNeitherBlockNorGas ==
    {"block_number", "gas_used"} \cap DOMAIN dlv.result = {}

\* C13 as stated: without wait the status is 'unknown'.
C13_Original ==
    (Delivered /\ ~dlv.wait) => dlv.result.status = "unknown"
\* C13 amended: with wait, 'confirmed' exactly for a receipt with a true
\* status flag, 'reverted' exactly for a receipt with a false one, 'unknown'
\* exactly when the lookup returns no receipt (a lookup that throws rejects
\* the call); without wait no receipt is looked up and the status is
\* 'submitted'.  Block number and gas used are reported exactly when a
\* receipt is present.
C13_ReceiptClassification ==
    /\ Delivered =>
        /\ dlv.wait =>
              /\ dlv.result.status = "confirmed" <=> dlv.receipt = "success"
              /\ dlv.result.status = "reverted" <=> dlv.receipt = "failure"
              /\ dlv.result.status = "unknown" <=> dlv.receipt = "null"
              /\ dlv.receiptFor = dlv.txHash
        /\ ~dlv.wait =>
              /\ dlv.result.status = "submitted"
              /\ dlv.receipt = "none" /\ dlv.receiptFor = NoHash
        /\ IF dlv.receipt \in {"success", "failure"}
           THEN ReportsBlockAndGas ELSE ReportsNeitherBlockNorGas
        /\ dlv.result.tx_hash = dlv.txHash
    /\ (dlv.pc = "done" /\ dlv.receiptFor # NoHash /\ dlv.receipt = "none") =>
          dlv.result = [kind |-> "throw", error |-> "getTransactionReceipt"]
\* a delivery that waited has returned 'reverted' with block number and gas
C13_Witness ==
    /\ Delivered /\ dlv.wait /\ dlv.receipt = "failure"
    /\ dlv.result.status = "reverted" /\ ReportsBlockAndGas


\* ------------------------------------------------------ watchForMechDataUrl
MaxScanTimeout == 7     \* timeout (seconds) that leaves room for three scans

\* one call watchForMechDataUrl(requestIds, fromBlock, mech, timeout)
InitScan ==
    /\ InitClock
    /\ pc = "p2_start"
    /\ timeout = MaxScanTimeout
    /\ \E ids \in SeqsUpTo(CallerIds, MaxBatch), m \in 1..MaxMech :
        /\ requestIds = ids
        /\ mechToRequestIds = <<[k |-> [pfx |-> "0x", acct |-> m], v |-> ids]>>
        /\ deliveryMechs = [i \in 1..Len(ids) |->
                                [k |-> ids[i], v |-> [pfx |-> "0x", acct |-> m]]]
    /\ fromBlock = 1
    /\ p1Start = 0 /\ idx = 1 /\ requestIdsData = deliveryMechs
    /\ mi = 1 /\ results = <<>>
    /\ p2Start = 0 /\ currentFromBlock = 1 /\ logs = <<>> /\ li = 1
    /\ latestBlock = 1 /\ dataUrls = <<>>
    /\ returned = <<>>
    /\ hist = HistInit
    /\ sub = SubIdle /\ dlv = DlvIdle

NextScan == P2Start \/ Mine \/ P2GetLogs \/ P2Log \/ P2Advance \/ WMerge

SpecScan == InitScan /\ [][NextScan]_vars

\* watchForMechDataUrl has returned dataUrls
ScanReturned == pc \in {"w_merge", "done"}
\* a Deliver log of the watched mech for a watched request id, at or after
\* fromBlock, whose payload decodes
WatchedDelivery(log) ==
    /\ log.address = mechToRequestIds[mi].k
    /\ log.blockNumber >= fromBlock
    /\ GetEventData(log) # Null
    /\ IsWatched(mechToRequestIds[mi].v, GetEventData(log).requestId)

\* C20: a watched delivery that was on chain when a scan started (here: when
\* the last scan whose fetch succeeded started) is in the returned mapping.
C20_NoWatchedDeliverySkipped ==
    ScanReturned =>
        \A i \in 1..Len(chainLogs) :
            (WatchedDelivery(chainLogs[i]) /\ chainLogs[i].blockNumber <= hist.scanHead) =>
                Has(dataUrls, GetEventData(chainLogs[i]).requestId)


\* -------------------------------------------------- the cursor of the scans
RECURSIVE HighestBlock(_, _)
\* the for loop's latestBlock = Math.max(latestBlock, Number(log.blockNumber))
HighestBlock(batch, least) ==
    IF batch = <<>> THEN least
    ELSE HighestBlock(Tail(batch), Max(least, Head(batch).blockNumber))

\* scans finished so far in this call, counted by the sleeps that followed them
SleepsDone == hist.scanSlept \div WAIT_SLEEP

\* the step that ends a scan moves the cursor one past the highest block of the
\* batch, never backwards, and sleeps once
CursorStep ==
    [][(pc = "p2_advance") =>
          (/\ logs # <<>> => currentFromBlock' = HighestBlock(logs, 0) + 1
           /\ currentFromBlock' = HighestBlock(logs, currentFromBlock) + 1
           /\ currentFromBlock' > currentFromBlock
           /\ now' = now + WAIT_SLEEP
           /\ hist'.scanSlept = hist.scanSlept + WAIT_SLEEP)]_vars
\* the cursor moves at no other step of the loop
CursorKept ==
    [][(pc \in {"p2_getlogs", "p2_log"}) => (currentFromBlock' = currentFromBlock)]_vars
\* at the head of scan k+1 exactly k sleeps and k fetches have gone by
OneSleepPerScan ==
    /\ pc = "p2_getlogs" => now - p2Start = SleepsDone * (WAIT_SLEEP + callDur)
    /\ pc \in {"p2_log", "p2_advance"} =>
          now - p2Start = SleepsDone * (WAIT_SLEEP + callDur) + callDur

\* C21: after each scan the next 'from' block is one past the highest block
\* among the logs of the batch, it never decreases, and exactly one sleep of
\* the polling interval separates two consecutive scans.
C21_CursorOnePastBatch == CursorStep /\ CursorKept /\ []OneSleepPerScan
\* the second scan is about to start two blocks further, after one sleep and
\* one fetch that took time
C21_Witness ==
    /\ pc = "p2_getlogs" /\ SleepsDone = 1 /\ callDur = 1
    /\ logs # <<>> /\ currentFromBlock = fromBlock + 2


\* ------------------------------------------------ the quote of each attempt
\* the quotes (pending nonce, base fee) that attempt a fetched
QuotesOf(a) == {i \in 1..Len(sub.quotes) : sub.quotes[i].attempt = a}

\* C22: every attempt of sendMarketplaceRequest that sends has fetched the
\* nonce and the base fee itself, once, and sends with exactly these values;
\* no attempt's transaction is sent twice, so none goes out under two nonces.
C22_FreshNonceAndFees ==
    sub.fn = "sendMarketplaceRequest" =>
        /\ \A i \in 1..Len(sub.sent) :
              /\ Cardinality(QuotesOf(sub.sent[i].attempt)) = 1
              /\ \A q \in QuotesOf(sub.sent[i].attempt) :
                    /\ sub.sent[i].nonce = sub.quotes[q].nonce
                    /\ sub.sent[i].maxFeePerGas = MaxFeePerGas(sub.quotes[q].baseFee)
                    /\ sub.sent[i].maxPriorityFeePerGas =
                          MaxPriorityFeePerGas(sub.quotes[q].baseFee)
        /\ \A i, j \in 1..Len(sub.sent) :
              i # j => sub.sent[i].attempt # sub.sent[j].attempt
\* two attempts have sent, the second with a later nonce and other fees
C22_Witness ==
    /\ sub.fn = "sendMarketplaceRequest" /\ Len(sub.sent) = 2
    /\ sub.sent[1].nonce < sub.sent[2].nonce
    /\ sub.sent[1].maxFeePerGas # sub.sent[2].maxFeePerGas


\* ------------------------------------------------- the delivery submission
\* deliverViaSafe has surfaced the error of a send that carried no hash
SendErrorSurfaced ==
    /\ dlv.pc = "done"
    /\ dlv.result = [kind |-> "throw", error |-> "sendSignedTransaction"]

\* C23: when sending the signed Safe transaction fails and the error carries
\* no transaction hash, the submission is retried before the error is
\* surfaced.
C23_DeliverySendRetried ==
    SendErrorSurfaced => dlv.sendCount > 1


\* ------------------------------------------------ failures of the building
\* the errors thrown while the request call is built (365)
BuildErrors == {"toChecksumAddress"}
BuildFailed == \E i \in 1..Len(sub.thrown) : sub.thrown[i] \in BuildErrors
Slept == \E i \in 1..Len(sub.events) : sub.events[i] = "sleep"

\* C24: a failure while the transaction is built is raised at once: no backoff
\* sleep follows it, no further attempt is made, and the call ends with that
\* error.
C24_BuildFailureIsFatal ==
    BuildFailed =>
        /\ Len(sub.thrown) = 1
        /\ ~Slept
        /\ sub.attempt = 0
        /\ sub.pc = "done" => sub.result = [kind |-> "throw", error |-> sub.thrown[1]]


\* --------------------------------------------------------------- fee pricing
\* the fee fields of a transaction follow the policy for the base fee b: with
\* a base fee, a fee-market transaction with maxFeePerGas = 2 x base fee +
\* priority fee; without one, a single gasPrice and no fee-market field
FeePolicy(tx, b) ==
    IF b > 0
    THEN /\ {"maxFeePerGas", "maxPriorityFeePerGas"} \subseteq DOMAIN tx
         /\ "gasPrice" \notin DOMAIN tx
         /\ tx.maxFeePerGas = 2 * b + tx.maxPriorityFeePerGas
    ELSE /\ "gasPrice" \in DOMAIN tx
         /\ {"maxFeePerGas", "maxPriorityFeePerGas", "type"} \cap DOMAIN tx = {}

\* the delivery transaction is priced by the policy, with the suggested
\* priority fee or the fixed one when the suggestion failed
DeliveryFeePolicy ==
    dlv.sendCount > 0 =>
        /\ FeePolicy(dlv.txPayload, dlv.feeQuote.baseFee)
        /\ dlv.feeQuote.baseFee > 0 =>
              dlv.txPayload.maxPriorityFeePerGas =
                 IF dlv.feeQuote.suggested = 0 THEN FALLBACK_PRIORITY
                 ELSE dlv.feeQuote.suggested

\* C25: every transaction sent by the request submission is priced by the fee
\* policy for the base fee its attempt read.
C25_RequestFeePolicy ==
    sub.fn = "sendMarketplaceRequest" =>
        \A i \in 1..Len(sub.sent) :
            \A q \in QuotesOf(sub.sent[i].attempt) :
                FeePolicy(sub.sent[i], sub.quotes[q].baseFee)


\* ------------------------------------------------------------ gas estimation
\* the request submission: an attempt whose gas estimation failed still goes
\* on to the quote and the send, with the configured gas limit
RequestEstimateFallback ==
    [][(sub.fn = "sendMarketplaceRequest" /\ sub.pc = "build" /\ sub.priorityMechValid) =>
          (/\ sub'.pc = "quote"
           /\ sub'.gasEstimate \in {"estimate", "gasLimit"}
           /\ sub'.thrown = sub.thrown)]_vars

\* deliverViaSafe has ended with the error of the gas estimation
AbortedByEstimate ==
    /\ dlv.pc = "done"
    /\ dlv.result = [kind |-> "throw", error |-> "estimateGas"]

\* C26: a failure of the gas estimation alone never aborts a submission: the
\* delivery substitutes a static gas limit and goes on to send.
C26_EstimateFailureNeverAborts ==
    ~AbortedByEstimate


\* ------------------------------------------- the hash signed and the call
SafeCallFields ==
    {"to", "value", "data", "operation", "safeTxGas", "baseGas", "gasPrice",
     "gasToken", "refundReceiver"}

\* C27: the message signed is what getTransactionHash returned for to,
\* value 0, data, operation 0, zero gas fields, zero gasToken and zero
\* refundReceiver, and execTransaction is encoded with these same values.
C27_SignedHashMatchesExec ==
    dlv.execArgs # <<>> =>
        /\ dlv.signedMessage = [safeTxHashOf |-> dlv.hashArgs]
        /\ \A f \in SafeCallFields : dlv.execArgs[f] = dlv.hashArgs[f]
        /\ dlv.hashArgs.to = "targetMechAddress"
        /\ dlv.hashArgs.data = "innerCallData"
        /\ \A f \in {"value", "operation", "safeTxGas", "baseGas", "gasPrice"} :
              dlv.hashArgs[f] = 0
        /\ dlv.hashArgs.gasToken = ADDRESS_ZERO
        /\ dlv.hashArgs.refundReceiver = ADDRESS_ZERO
        /\ dlv.execArgs.signatures = dlv.signature
\* the Safe transaction with nonce 1 was signed, encoded and sent
C27_Witness ==
    /\ dlv.execArgs # <<>> /\ dlv.hashArgs.nonce = 1
    /\ dlv.sendCount = 1 /\ dlv.sendOutcome = "ok"


\* ---------------------------------------------- the order of the delivery
\* the steps of one deliverViaSafe call, with the fee call that was made
StepsInOrder(feeCall) ==
    <<"getChainId", "encodeAgentMechDeliverCall", "safe.nonce", "safe.getTransactionHash",
      "account.sign", "execTransaction.encodeABI", "getTransactionCount", "estimateGas",
      "getBlock", feeCall, "signTransaction", "sendSignedTransaction",
      "getTransactionReceipt">>
IsPrefix(s, t) == Len(s) <= Len(t) /\ \A i \in 1..Len(s) : s[i] = t[i]

\* C28: in every invocation the Safe nonce is read from the contract after the
\* inner call data is built and right before getTransactionHash, which gets
\* exactly the value read; then hash, sign, encode execTransaction, account
\* nonce, gas estimate, fees, sign, send follow in this order.
C28_SafeNonceThenOrderedSteps ==
    /\ \E feeCall \in {"getMaxPriorityFeePerGas", "getGasPrice"} :
          IsPrefix(dlv.calls, StepsInOrder(feeCall))
    /\ dlv.hashArgs # <<>> =>
          /\ dlv.hashArgs.nonce = dlv.safeNonce
          /\ dlv.calls[3] = "safe.nonce" /\ dlv.calls[4] = "safe.getTransactionHash"
\* a delivery with Safe nonce 1 went through every step up to the send
C28_Witness ==
    /\ dlv.safeNonce = 1 /\ dlv.hashArgs # <<>> /\ dlv.sendOutcome = "ok"
    /\ Len(dlv.calls) >= 12 /\ dlv.calls[12] = "sendSignedTransaction"


\* ------------------------------------------- responses that are malformed
\* the step polls one id of the tick
PollStep == pc = "p1_poll"
\* the response of the step is the first of the run to report a worker
FirstWorkerReported == ~hist.reported /\ hist'.reported
\* no response of the run so far was well formed
OnlyMalformedSoFar == ~hist.reported /\ ~hist.zeroSeen

\* C29: whatever mapRequestIdInfos answers for an id, the for loop goes on to
\* the next id of the tick and the function does not end; an entry is written
\* only for a response that names a worker (a non-zero "0x" address), so a
\* malformed response or an error records nothing; every tick that starts
\* polls every id again; and a response that names a worker is recorded, also
\* after malformed ones.
C29_MalformedResponseSkipped ==
    /\ [][PollStep =>
            (/\ idx' = idx + 1
             /\ pc' = IF idx = Len(requestIds) THEN "p1_tick" ELSE "p1_poll"
             /\ requestIdsData' # requestIdsData =>
                   /\ hist'.reported
                   /\ Has(requestIdsData', requestIds[idx])
                   /\ AddrStartsWith0x(Get(requestIdsData', requestIds[idx]))
                   /\ Get(requestIdsData', requestIds[idx]) # ADDRESS_ZERO
                   /\ \A k \in KeySet(requestIdsData) \ {requestIds[idx]} :
                         Get(requestIdsData', k) = Get(requestIdsData, k)
             /\ \A k \in KeySet(requestIdsData) : Has(requestIdsData', k)
             /\ FirstWorkerReported => Has(requestIdsData', requestIds[idx]))]_vars
    /\ [][(pc = "p1_check" /\ pc' = "p1_poll") => (idx' = 1)]_vars
    /\ [][(pc = "p1_tick" /\ ~AllAssigned(requestIdsData, requestIds)) =>
            (pc' = "p1_check")]_vars
\* the first tick got only malformed answers or errors for both ids and
\* recorded nothing; the second tick has polled the first id again, got another
\* one, and goes on to the second id
C29_Witness ==
    /\ Len(requestIds) = 2 /\ hist.p1Slept = WAIT_SLEEP
    /\ OnlyMalformedSoFar /\ requestIdsData = <<>>
    /\ pc = "p1_poll" /\ idx = 2


\* ------------------------------------------------ logs that do not decode
\* every decodable log of the batch for a watched id has its entry
BatchRecorded ==
    \A i \in 1..Len(logs) :
        (Decodes(logs[i]) /\ IsWatched(mechToRequestIds[mi].v, GetEventData(logs[i]).requestId)) =>
            Has(dataUrls, GetEventData(logs[i]).requestId)

\* C30: a log that does not decode records nothing and does not end the scan:
\* the for loop goes on to the next log, the batch is processed to its end
\* with every decodable watched log recorded, and the polling loop goes on.
C30_UndecodableLogSkipped ==
    /\ [][(pc = "p2_log" /\ ~Decodes(logs[li])) =>
            (/\ dataUrls' = dataUrls
             /\ logs' = logs /\ li' = li + 1
             /\ pc' = IF li = Len(logs) THEN "p2_advance" ELSE "p2_log")]_vars
    /\ [](pc = "p2_advance" => BatchRecorded)
    /\ [][(pc = "p2_advance") => (pc' \in {"p2_getlogs", "w_merge"})]_vars
\* a batch of two logs is done: the first did not decode, the second was
\* recorded, and one watched id is still open
C30_Witness ==
    /\ pc = "p2_advance" /\ Len(logs) = 2
    /\ ~Decodes(logs[1]) /\ Decodes(logs[2])
    /\ Len(dataUrls) = 1 /\ Has(dataUrls, GetEventData(logs[2]).requestId)
    /\ Len(mechToRequestIds[mi].v) = 2


\* ------------------------------------------------ assigned exactly once
\* C31: a poll is made only for an id that has no worker yet, and a poll
\* never replaces or removes the worker recorded for an id.
C31_AssignedExactlyOnce ==
    [][PollStep =>
          (/\ ~Has(requestIdsData, requestIds[idx])
           /\ \A k \in KeySet(requestIdsData) :
                 Has(requestIdsData', k) /\ Get(requestIdsData', k) = Get(requestIdsData, k))]_vars
\* a poll never removes an entry
EntryKept ==
    [][PollStep => (\A k \in KeySet(requestIdsData) : Has(requestIdsData', k))]_vars


\* ---------------------------------------------------- early termination
\* every id watched for the worker has a recorded delivery
AllWatchedRecorded ==
    \A i \in 1..Len(mechToRequestIds[mi].v) :
        \E k \in KeySet(dataUrls) : NormalizeId(k) = NormalizeId(mechToRequestIds[mi].v[i])

\* C32: once every watched id has a recorded delivery, watchForMechDataUrl
\* has returned: it is not in its loop, about to scan or to sleep.
C32_EarlyTermination ==
    (pc \in ScanPcs /\ mechToRequestIds # <<>>) => ~AllWatchedRecorded
\* the same for batches of distinct ids, at least one
DistinctWatched ==
    /\ mechToRequestIds # <<>> /\ mechToRequestIds[mi].v # <<>>
    /\ \A i, j \in 1..Len(mechToRequestIds[mi].v) :
          i # j => NormalizeId(mechToRequestIds[mi].v[i]) # NormalizeId(mechToRequestIds[mi].v[j])
EarlyTerminationDistinct ==
    (pc \in ScanPcs /\ DistinctWatched) => ~AllWatchedRecorded


\* ------------------------------------------------- only watched ids match
\* the id of the log equals a watched id once both are stripped of "0x" and
\* put in lower case
MatchesWatched(log) ==
    \E i \in 1..Len(mechToRequestIds[mi].v) :
        NormalizeId(GetEventData(log).requestId) = NormalizeId(mechToRequestIds[mi].v[i])

\* C33: a decodable log whose normalized id equals no normalized watched id
\* adds no entry and does not bring the early return about; a log whose
\* normalized id equals a watched one has its entry after the step, built
\* from its payload when the id was not recorded before.
C33_OnlyWatchedIdsRecorded ==
    [][(pc = "p2_log" /\ Decodes(logs[li])) =>
         LET ev == GetEventData(logs[li])
         IN IF MatchesWatched(logs[li])
            THEN /\ Has(dataUrls', ev.requestId)
                 /\ ~Has(dataUrls, ev.requestId) =>
                       Get(dataUrls', ev.requestId) = IpfsUrl(ev.deliveryData)
                 /\ Len(dataUrls') <= Len(dataUrls) + 1
            ELSE /\ dataUrls' = dataUrls
                 /\ pc' = "w_merge" => AllWatchedRecorded]_vars
\* a batch of two logs is done: the first was for an id that is not watched,
\* the second for an id the caller spelled with "0x" and capitals
C33_Witness ==
    /\ pc = "p2_advance" /\ Len(logs) = 2
    /\ Decodes(logs[1]) /\ ~MatchesWatched(logs[1])
    /\ Decodes(logs[2]) /\ MatchesWatched(logs[2])
    /\ Len(dataUrls) = 1 /\ Has(dataUrls, GetEventData(logs[2]).requestId)
    /\ \A i \in 1..Len(mechToRequestIds[mi].v) :
          StartsWith0x(mechToRequestIds[mi].v[i]) /\ mechToRequestIds[mi].v[i].up


\* ------------------------------------------------- the keys of the results
\* every key of the mapping of watchForMarketplaceData is an id as passed
AssignedKeysAsPassed ==
    KeySet(requestIdsData) \subseteq {requestIds[i] : i \in 1..Len(requestIds)}

\* C34: every key of the mapping of watchForMechDataUrl is one of the ids its
\* caller passed, spelled as passed.
C34_KeysAsCallerSpelled ==
    mechToRequestIds # <<>> =>
        KeySet(dataUrls) \subseteq
            {mechToRequestIds[mi].v[i] : i \in 1..Len(mechToRequestIds[mi].v)}


\* ------------------------------------------- the scans of distinct workers
EntrySet(o) == {o[i] : i \in 1..Len(o)}

InteractValidationErrors ==
    {"Invalid mech payment type", "Insufficient deposited balance",
     "Insufficient Nevermined subscription balance"}

InteractRejected ==
    /\ sub.pc = "done"
    /\ sub.result.kind = "throw"
    /\ sub.result.error \in InteractValidationErrors

\* sendMarketplaceRequest was called only after every validation passed
SubmittedAfterValidation ==
    (sub.pc = "done" /\ sub.result.kind = "submitted") =>
        /\ sub.mechPaymentType \in PaymentTypes
        /\ (sub.usePrepaid /\ sub.mechPaymentType \in {"NATIVE", "TOKEN"})
              => sub.requesterBalance >= sub.mechMaxDeliveryRate
        /\ IsNvmMech(sub.mechPaymentType) => sub.nvmBalance >= sub.nvmNeeded

CidRejected ==
    /\ dlv.pc = "done"
    /\ dlv.result.kind = "throw"
    /\ dlv.result.error = "extractSha256DigestFromCid"

\* C36: a marketplaceInteract call that throws for an unknown payment type, an
\* insufficient prepaid balance or an insufficient subscription balance has
\* sent no transaction, and a call that reached sendMarketplaceRequest passed
\* all three validations; a deliverViaSafe call that throws for the CID has
\* made no chain call.
C36_ValidationBeforeTransactions ==
    /\ InteractRejected => sub.txs = <<>>
    /\ SubmittedAfterValidation
    /\ CidRejected => dlv.calls = <<>>

C36_Witness ==
    /\ InteractRejected
    /\ sub.result.error = "Insufficient Nevermined subscription balance"
    /\ ~sub.usePrepaid
    /\ sub.nvmBalance > 0
    /\ sub.txs = <<>>


\* ---------------------------------------------------------------- C37
\* the first scan of a worker starts at the block of the receipt, and every
\* scan asks for the logs of a worker that phase 1 assigned
ScanAtWorkerFromReceiptBlock ==
    /\ [][(pc = "p2_start") =>
            (currentFromBlock' = sub.txReceipt.blockNumber)]_vars
    /\ [](pc = "p2_getlogs" =>
            \E i \in 1..Len(deliveryMechs) : deliveryMechs[i].v = LogFilter.address)

\* C37: every getPastLogs call of a scan started by marketplaceInteract names
\* the keccak-256 topic id of the Deliver event of the mech ABI as its topic
\* and the assigned worker as its address, and the first scan of a worker
\* starts at the block of the receipt of the request transaction.
C37_ScanFilter ==
    /\ ScanAtWorkerFromReceiptBlock
    /\ [](pc = "p2_getlogs" => LogFilter.topics = <<CalculateTopicId(DeliverEvent)>>)


\* ---------------------------------------------------------------- C38
BothExtracted == dlv.pc = "extracted" /\ sub.pc = "digested"

\* C38: given the same string, extractSha256DigestFromCid and
\* extractMultihashBufferFromCid with the sha2-256 check and the slice both
\* fail or both return the same 32 bytes; for a CID rendered from a version
\* byte, a varint codec and a sha2-256 multihash of 32 bytes (or from that
\* multihash alone, in base58) these are the bytes of its digest.
C38_ExtractorsAgree ==
    BothExtracted =>
        /\ dlv.digestBytes.ok = sub.digest.ok
        /\ dlv.digestBytes.ok =>
              /\ dlv.digestBytes.value = sub.digest.value
              /\ Len(sub.digest.value) = DIGEST_LENGTH
        /\ (dlv.cid.form \in {"v0", "v1"} /\ dlv.cid.code = SHA2_256
                /\ dlv.cid.length = DIGEST_LENGTH
                /\ Len(dlv.cid.digest) = DIGEST_LENGTH) =>
              /\ sub.digest.ok
              /\ sub.digest.value = dlv.cid.digest
\* a CIDv1 with the two-byte codec 0x0129 gave its digest to both
C38_Witness ==
    /\ BothExtracted
    /\ dlv.cid.form = "v1"
    /\ DecodeCidV1ToBytes(dlv.cid.text)[2] = DAG_JSON[1]
    /\ dlv.digestBytes.ok /\ sub.digest.ok
    /\ sub.digest.value = dlv.cid.digest


\* ---------------------------------------------------------------- C39
ResolvedWithUrl == sub.settled.kind = "resolve" /\ sub.settled.value # Null

\* the URL comes from a Deliver log of the watched request
FromWatchedDelivery ==
    /\ sub.from.topic0 = CalculateTopicId(DeliverEvent)
    /\ Strip0x(ToLowerCase(sub.from.requestId)) = Strip0x(ToLowerCase(sub.requestId))
    /\ sub.settled.value = WssUrlOf(sub.from)

\* a settled promise keeps its outcome
SettledOnce ==
    [][(sub.settled.kind # "pending") => (sub'.settled = sub.settled)]_vars

\* watchForMarketplaceDataUrlFromWss resolves for the watched request only
MarketplaceWatcherMatchesId ==
    (sub.fn = "watchForMarketplaceDataUrlFromWss" /\ ResolvedWithUrl) => FromWatchedDelivery

\* C39: when watchForDataUrlFromWss has resolved with a URL, the URL is the
\* one of a Deliver log of the request it was asked to watch; once its
\* promise is settled the message handler is no longer registered.
C39_LegacyWatcher ==
    sub.fn = "watchForDataUrlFromWss" =>
        /\ ResolvedWithUrl => FromWatchedDelivery
        /\ sub.settled.kind # "pending" => ~sub.listening

====
